---- MODULE Spec2Model ----
(***************************************************************************)
(* A model of the secure-blocktree stack: the blockchain layer (L1), the   *)
(* blocktree layer (L2) and the block operations of the secure layer (L3). *)
(*                                                                         *)
(* A hash is the position at which its bytes were written to storage: the  *)
(* nonce drawn for every block makes each written buffer, and so each      *)
(* hash, new.  RandomHash is a hash of the right length that no block has. *)
(* Stored bytes are the records the serializers build; payload bytes that  *)
(* no modelled operation reads (user data, signature bytes) are left out.  *)
(***************************************************************************)
EXTENDS Integers, Sequences, FiniteSets

VARIABLES store, cache, time, result, procs, broker

vars == <<store, cache, time, result, procs, broker>>

\* ------------------------------------------------------------------ bounds
MaxBlocks == 3

MaxSecureBlocks == 4

MaxRaceBlocks == 3

MaxTime == 1

MaxReadBlocks == 2

MaxCacheBlocks == 2

\* stored blocks in the runs that follow prev and parent links
MaxLinkBlocks == 3

\* key pairs the broker's callers hold, and request tokens it issues
MaxKeys == 2

MaxTokens == 2

\* the number of values a byte holds: 256 in the code, scaled down so that
\* every value of every width is tried
Radix == 2

\* --------------------------------------------------------------- constants
NULL == 0

RandomHash == -1

HashSize == 32

MaxHash ==
    IF MaxBlocks >= MaxSecureBlocks /\ MaxBlocks >= MaxRaceBlocks THEN MaxBlocks
    ELSE IF MaxSecureBlocks >= MaxRaceBlocks THEN MaxSecureBlocks
    ELSE MaxRaceBlocks

\* one more than any storage holds: a write that would pass the bound is
\* computed before it is dropped
Hashes == 1..(MaxHash + 1)

HashOrNull == Hashes \cup {NULL, RandomHash}

\* JavaScript's false, handed over where a hash is expected
False == MaxHash + 2

\* constants.block.zero: the hash of hash size whose bytes are all zero
block_zero == MaxHash + 3

layer_blockchain == "blockchain"

layer_blocktree == "blocktree"

layer_secureBlocktree == "secureBlocktree"

cache_next == "next"

cache_rootBlock == "rootBlock"

cache_headBlock == "headBlock"

cache_childBlocks == "childBlocks"

CacheSlots == {cache_next, cache_rootBlock, cache_headBlock}

\* ------------------------------------------------- system layer (storage)
\* what a read gives when nothing is stored (JavaScript's null)
NoBytes == [null |-> TRUE]

NoBlock == [null |-> TRUE]

\* storage.readBytes: the bytes under a hash, or nothing
readStorage(st, block) ==
    IF block \in 1..Len(st) THEN st[block] ELSE NoBytes

\* storage.writeBytes: stores the buffer and returns its hash
writeStorage(st, buf) == Append(st, buf)

\* the nonce drawn for a buffer is new, so it stands for the buffer's digest
generateNonce(st) == Len(st) + 1

generateHash(buf) == buf.nonce

generateTimestamp(t) == t

countBlocks(st) == Len(st)

\* the first half of the hexadecimal text of a hash: a string that is not a
\* hash and that the hash starts with
partialHash(h) == RandomHash - h

\* Buffer.byteLength(Buffer.from(hash, 'hex'))
byteLength(hash) == IF hash < RandomHash THEN HashSize \div 2 ELSE HashSize

startsWith(h, partial) == partial = h \/ partial = partialHash(h)

\* listKeys(prefix): the stored hashes that start with the prefix
listBlocks(st, partial) ==
    IF partial = NULL THEN 1..Len(st)
    ELSE {h \in 1..Len(st) : startsWith(h, partial)}

\* the time mock: now() gives what setNextTimestamp last set
Timestamps == 0..MaxTime

\* --------------------------------------------------- system layer (cache)
\* failing: the cache collaborator raises on every call made to it
EmptyCache ==
    [slots |-> [s \in CacheSlots |-> [h \in HashOrNull |-> NULL]],
     childBlocks |-> [h \in HashOrNull |-> [cached |-> FALSE, list |-> <<>>]],
     failing |-> FALSE]

\* system.readCache: a key nothing was cached under gives nothing, and so
\* does a cache that raises
readCache(ca, block, slot) ==
    IF ~ca.failing /\ block \in DOMAIN ca.slots[slot] THEN ca.slots[slot][block]
    ELSE NULL

\* system.writeCache: a cache that raises keeps nothing
writeCache(ca, block, slot, value) ==
    IF ca.failing THEN ca ELSE [ca EXCEPT !.slots[slot][block] = value]

readChildCache(ca, block) == ca.childBlocks[block]

writeChildCache(ca, block, list) ==
    [ca EXCEPT !.childBlocks[block] = [cached |-> TRUE, list |-> list]]

pushCache(ca, block, slot, value) ==
    [ca EXCEPT !.childBlocks[block] =
        [cached |-> TRUE, list |-> Append(@.list, value)]]

\* ------------------------------------------------------- L1 blockchain
\* what an operation hands back: the new storage and cache, and the value it
\* returns or the error it throws
Return(st, ca, value) ==
    [store |-> st, cache |-> ca, kind |-> "ok", reason |-> "", layer |-> "",
     value |-> value]

Throw(st, ca, kind, reason, layer) ==
    [store |-> st, cache |-> ca, kind |-> kind, reason |-> reason,
     layer |-> layer, value |-> NULL]

serializeBlockData(bcBlockData, nonce, timestamp) ==
    LET prev == IF bcBlockData.prev = NULL THEN NULL ELSE bcBlockData.prev
        size == IF bcBlockData.prev = NULL THEN 1 ELSE HashSize
    IN [len |-> size - 1, prev |-> prev, nonce |-> nonce,
        timestamp |-> timestamp, data |-> bcBlockData.data]

\* mutant: the length byte is read without the + 1, so prev comes back short
deserializeBlockData_ShortPrev(buf) ==
    IF buf = NoBytes THEN NoBlock
    ELSE [prev |-> partialHash(buf.prev),
          nonce |-> buf.nonce, timestamp |-> buf.timestamp,
          data |-> buf.data, hash |-> generateHash(buf)]

deserializeBlockData(buf) ==
    IF buf = NoBytes THEN NoBlock
    ELSE LET hashSize == buf.len + 1
         IN [prev |-> IF hashSize = 1 /\ buf.prev = NULL THEN NULL ELSE buf.prev,
             nonce |-> buf.nonce, timestamp |-> buf.timestamp,
             data |-> buf.data, hash |-> generateHash(buf)]

blockchain_readBlock(st, block) == deserializeBlockData(readStorage(st, block))

\* mutant: a block that is not stored leaves the result as it was
RECURSIVE getRootBlockWalk_KeepsResult(_, _, _)
getRootBlockWalk_KeepsResult(st, next, res) ==
    LET nextBlock == blockchain_readBlock(st, next)
    IN IF nextBlock = NoBlock THEN res
       ELSE LET prev == nextBlock.prev
                r == IF prev # NULL THEN prev ELSE res
            IN IF prev # NULL THEN getRootBlockWalk_KeepsResult(st, prev, r)
               ELSE r

RECURSIVE getRootBlockWalk(_, _, _)
getRootBlockWalk(st, next, res) ==
    LET nextBlock == blockchain_readBlock(st, next)
    IN IF nextBlock = NoBlock THEN NULL
       ELSE LET prev == nextBlock.prev
                r == IF prev # NULL THEN prev ELSE res
            IN IF prev # NULL THEN getRootBlockWalk(st, prev, r) ELSE r

blockchain_getRootBlock(st, block) == getRootBlockWalk(st, block, block)

\* the cache after cacheRootBlock, and the root it returns
cacheRootBlock(st, ca, block, bcBlockData) ==
    IF bcBlockData.prev = NULL
    THEN [cache |-> writeCache(ca, block, cache_rootBlock, block), root |-> block]
    ELSE LET cached == readCache(ca, bcBlockData.prev, cache_rootBlock)
         IN IF cached # NULL
            THEN [cache |-> writeCache(ca, block, cache_rootBlock, cached),
                  root |-> cached]
            ELSE LET root == blockchain_getRootBlock(st, block)
                 IN [cache |-> writeCache(ca, block, cache_rootBlock, root),
                     root |-> root]

\* options.cacheRoot !== false: the option is on unless it is given as false
cacheRootOption(options) ==
    IF "cacheRoot" \in DOMAIN options THEN options.cacheRoot ELSE TRUE

\* mutant: the bytes are written before prev is looked up
blockchain_writeBlock_WritesFirst(st, ca, t, bcBlockData, options) ==
    LET buf == serializeBlockData(bcBlockData, generateNonce(st),
                                  generateTimestamp(t))
        st2 == writeStorage(st, buf)
        block == generateHash(buf)
        cr == cacheRootBlock(st2, ca, block, bcBlockData)
    IN IF options.validate /\ bcBlockData.prev # NULL
          /\ blockchain_readBlock(st, bcBlockData.prev) = NoBlock
       THEN Throw(st2, ca, "Error", "", "")
       ELSE IF cacheRootOption(options)
       THEN Return(st2, writeCache(cr.cache, cr.root, cache_headBlock, block),
                   block)
       ELSE Return(st2, ca, block)

blockchain_writeBlock(st, ca, t, bcBlockData, options) ==
    IF options.validate /\ bcBlockData.prev # NULL
       /\ blockchain_readBlock(st, bcBlockData.prev) = NoBlock
    THEN Throw(st, ca, "Error", "", "")
    ELSE LET buf == serializeBlockData(bcBlockData, generateNonce(st),
                                       generateTimestamp(t))
             st2 == writeStorage(st, buf)
             block == generateHash(buf)
             cr == cacheRootBlock(st2, ca, block, bcBlockData)
         IN IF cacheRootOption(options)
            THEN Return(st2,
                        writeCache(cr.cache, cr.root, cache_headBlock, block),
                        block)
            ELSE Return(st2, ca, block)

validation_missingBlock == "missingBlock"

validation_invalidTimestamp == "invalidTimestamp"

validation_missingParentBlock == "missingParentBlock"

\* a validation report; fields names the properties the object has
ValidReport(blockCount) ==
    [isValid |-> TRUE, reason |-> "", block |-> NULL, blockCount |-> blockCount,
     fields |-> {"isValid", "blockCount"}]

InvalidReport(reason, block, blockCount) ==
    [isValid |-> FALSE, reason |-> reason, block |-> block,
     blockCount |-> blockCount,
     fields |-> {"isValid", "reason", "block", "blockCount"}]

NoReport == [ValidReport(0) EXCEPT !.fields = {}]

\* an operation that returns a report
ReturnReport(st, ca, report) ==
    [store |-> st, cache |-> ca, kind |-> "ok", reason |-> "", layer |-> "",
     value |-> NULL, report |-> report]

\* an operation that returns a list of blocks, given by their hashes
ReturnList(st, ca, list) ==
    [store |-> st, cache |-> ca, kind |-> "ok", reason |-> "", layer |-> "",
     value |-> NULL, list |-> list]

\* a read of a hash that is set and not of hash size fails in readBlock
isBlockHash(block) ==
    block = NULL \/ block = False \/ byteLength(block) = HashSize

\* mutant: the count starts at the second block read
RECURSIVE validateBlockchainWalk_OffByOne(_, _, _)
validateBlockchainWalk_OffByOne(st, next, blockCount) ==
    LET nextBlock == blockchain_readBlock(st, next)
    IN IF nextBlock = NoBlock
       THEN InvalidReport(validation_missingBlock, next, blockCount)
       ELSE IF nextBlock.prev # NULL
            THEN validateBlockchainWalk_OffByOne(st, nextBlock.prev, blockCount + 1)
            ELSE ValidReport(blockCount)

\* the do/while loop of validateBlockchain
RECURSIVE validateBlockchainWalk(_, _, _)
validateBlockchainWalk(st, next, blockCount) ==
    LET nextBlock == blockchain_readBlock(st, next)
    IN IF nextBlock = NoBlock
       THEN InvalidReport(validation_missingBlock, next, blockCount)
       ELSE IF nextBlock.prev # NULL
            THEN validateBlockchainWalk(st, nextBlock.prev, blockCount + 1)
            ELSE ValidReport(blockCount + 1)

blockchain_validateBlockchain(st, ca, block) ==
    IF ~isBlockHash(block)
    THEN Throw(st, ca, "SerializationError", "invalidBlockHash", layer_blockchain)
    ELSE ReturnReport(st, ca, validateBlockchainWalk(st, block, 0))

\* an operation that returns a block's data, or nothing
ReturnBlock(st, ca, blockData) ==
    [store |-> st, cache |-> ca, kind |-> "ok", reason |-> "", layer |-> "",
     value |-> NULL, read |-> blockData]

\* an operation that returns hashes in no order
ReturnFound(st, ca, found) ==
    [store |-> st, cache |-> ca, kind |-> "ok", reason |-> "", layer |-> "",
     value |-> NULL, found |-> found]

\* readBlock as it is called: system.readStorage refuses a hash of the wrong
\* size
blockchain_readBlockCall(st, ca, block) ==
    IF ~isBlockHash(block)
    THEN Throw(st, ca, "SerializationError", "invalidBlockHash", layer_blockchain)
    ELSE ReturnBlock(st, ca, blockchain_readBlock(st, block))

\* getRootBlock as it is called: its first readBlock refuses a hash of the
\* wrong size
blockchain_getRootBlockCall(st, ca, block) ==
    IF ~isBlockHash(block)
    THEN Throw(st, ca, "SerializationError", "invalidBlockHash", layer_blockchain)
    ELSE Return(st, ca, blockchain_getRootBlock(st, block))

blockchain_listBlocks(st, ca, partial) ==
    ReturnFound(st, ca, listBlocks(st, partial))

\* system.findInStorage(fn): the first stored buffer, in the order of
\* storage, that fn accepts; found holds the places of the buffers it accepts
findInStorage(st, found) ==
    IF found = {} THEN NoBytes
    ELSE st[CHOOSE h \in found : \A g \in found : h <= g]

blockchain_getNextBlock(st, ca, block) ==
    LET cached == readCache(ca, block, cache_next)
        isNext == {h \in 1..Len(st) : deserializeBlockData(st[h]).prev = block}
        value == findInStorage(st, isNext)
    IN IF cached # NULL THEN Return(st, ca, cached)
       ELSE IF value # NoBytes
       THEN LET hash == generateHash(value)
            IN Return(st, writeCache(ca, block, cache_next, hash), hash)
       ELSE Return(st, ca, NULL)

\* the do/while loop of getHeadBlock: the last block reached, the number of
\* turns, and the cache after the getNextBlock calls
RECURSIVE getHeadBlockWalk(_, _, _, _)
getHeadBlockWalk(st, ca, head, count) ==
    LET next == blockchain_getNextBlock(st, ca, head)
    IN IF next.value # NULL
       THEN getHeadBlockWalk(st, next.cache, next.value, count + 1)
       ELSE [cache |-> next.cache, result |-> head, count |-> count + 1]

\* mutant: the walked result is cached and returned whatever the count
blockchain_getHeadBlock_AlwaysCaches(st, ca, block) ==
    IF ~isBlockHash(block)
    THEN Throw(st, ca, "SerializationError", "invalidBlockHash", layer_blockchain)
    ELSE LET bc == blockchain_getRootBlock(st, block)
             cached == readCache(ca, bc, cache_headBlock)
             walk == getHeadBlockWalk(st, ca, bc, 0)
         IN IF bc = NULL THEN Return(st, ca, NULL)
            ELSE IF cached # NULL THEN Return(st, ca, cached)
            ELSE Return(st,
                        writeCache(walk.cache, bc, cache_headBlock, walk.result),
                        walk.result)

blockchain_getHeadBlock(st, ca, block) ==
    IF ~isBlockHash(block)
    THEN Throw(st, ca, "SerializationError", "invalidBlockHash", layer_blockchain)
    ELSE LET bc == blockchain_getRootBlock(st, block)
             cached == readCache(ca, bc, cache_headBlock)
             walk == getHeadBlockWalk(st, ca, bc, 0)
         IN IF bc = NULL THEN Return(st, ca, NULL)
            ELSE IF cached # NULL THEN Return(st, ca, cached)
            ELSE IF walk.count > 1
            THEN Return(st,
                        writeCache(walk.cache, bc, cache_headBlock, walk.result),
                        walk.result)
            ELSE Return(st, walk.cache, NULL)

\* -------------------------------------------------------- L2 blocktree
serializeBlocktreeData(btBlockData) ==
    [prev |-> btBlockData.prev,
     data |-> [parent |-> btBlockData.parent,
               layer |-> IF btBlockData.layer = "" THEN layer_blocktree
                         ELSE btBlockData.layer,
               data |-> btBlockData.data]]

deserializeBlocktreeData(bcBlockData) ==
    IF bcBlockData = NoBlock THEN NoBlock
    ELSE [timestamp |-> bcBlockData.timestamp, prev |-> bcBlockData.prev,
          nonce |-> bcBlockData.nonce, hash |-> bcBlockData.hash,
          parent |-> bcBlockData.data.parent, layer |-> bcBlockData.data.layer,
          data |-> bcBlockData.data.data]

blocktree_readBlock(st, block) ==
    deserializeBlocktreeData(blockchain_readBlock(st, block))

\* serializeBlocktreeData takes a parent that is null or of hash size
isParentHash(parent) == parent = NULL \/ byteLength(parent) = HashSize

\* mutant: the parent is not looked up before the write
blocktree_writeBlock_NoParentCheck(st, ca, t, btBlockData, options) ==
    IF ~isParentHash(btBlockData.parent)
    THEN Throw(st, ca, "SerializationError", "invalidHash", layer_blocktree)
    ELSE LET r == blockchain_writeBlock(st, ca, t,
                      serializeBlocktreeData(btBlockData), options)
         IN IF r.kind # "ok" THEN r
            ELSE IF btBlockData.parent # NULL
            THEN Return(r.store,
                        pushCache(r.cache, btBlockData.parent, cache_childBlocks,
                                  r.value),
                        r.value)
            ELSE r

\* mutant: the header is parsed before the block is known to exist
blocktree_readBlockCall_NoNullCheck(st, ca, block) ==
    LET r == blockchain_readBlockCall(st, ca, block)
    IN IF r.kind # "ok" THEN r
       ELSE IF r.read = NoBlock THEN Throw(st, ca, "TypeError", "", "")
       ELSE ReturnBlock(st, ca, deserializeBlocktreeData(r.read))

\* readBlock as it is called: what blockchain.readBlock throws passes through
blocktree_readBlockCall(st, ca, block) ==
    LET r == blockchain_readBlockCall(st, ca, block)
    IN IF r.kind # "ok" THEN r
       ELSE ReturnBlock(st, ca, deserializeBlocktreeData(r.read))

blocktree_writeBlock(st, ca, t, btBlockData, options) ==
    IF options.validate /\ btBlockData.parent # NULL
       /\ Cardinality(listBlocks(st, btBlockData.parent)) = 0
    THEN Throw(st, ca, "InvalidBlockError", "invalidParentBlock", layer_blocktree)
    ELSE IF ~isParentHash(btBlockData.parent)
    THEN Throw(st, ca, "SerializationError", "invalidHash", layer_blocktree)
    ELSE LET r == blockchain_writeBlock(st, ca, t,
                      serializeBlocktreeData(btBlockData), options)
         IN IF r.kind # "ok" THEN r
            ELSE IF btBlockData.parent # NULL /\ r.cache.failing
            THEN Throw(r.store, r.cache, "Error", "cache", "")
            ELSE IF btBlockData.parent # NULL
            THEN Return(r.store,
                        pushCache(r.cache, btBlockData.parent, cache_childBlocks,
                                  r.value),
                        r.value)
            ELSE r

blocktree_getRootBlock(st, block) == blockchain_getRootBlock(st, block)

\* mutant: the prefix is not handed on to the blockchain layer
blocktree_listBlocks_NoPrefix(st, ca, partial) ==
    blockchain_listBlocks(st, ca, NULL)

blocktree_listBlocks(st, ca, partial) == blockchain_listBlocks(st, ca, partial)

\* mutant: hands back the block itself, not its parent
blocktree_getParentBlock_Self(st, ca, block) ==
    LET blockData == blocktree_readBlock(st, block)
    IN IF blockData = NoBlock
       THEN Throw(st, ca, "InvalidBlockError", "isNull", layer_blocktree)
       ELSE Return(st, ca, blockData.hash)

blocktree_getParentBlock(st, ca, block) ==
    LET blockData == blocktree_readBlock(st, block)
    IN IF blockData = NoBlock
       THEN Throw(st, ca, "InvalidBlockError", "isNull", layer_blocktree)
       ELSE Return(st, ca, blockData.parent)

\* what performParentScan pushes for a block: its data, named by its hash,
\* or null
pushed(nextBlock) == IF nextBlock = NoBlock THEN NULL ELSE nextBlock.hash

\* mutant: the walk follows prev, the link of the chain, not parent
RECURSIVE performParentScanWalk_FollowsPrev(_, _, _)
performParentScanWalk_FollowsPrev(st, next, res) ==
    LET nextBlock == blocktree_readBlock(st, next)
        parent == IF nextBlock = NoBlock THEN NULL ELSE nextBlock.prev
    IN IF next # NULL /\ nextBlock = NoBlock THEN <<>>
       ELSE IF parent # NULL
       THEN performParentScanWalk_FollowsPrev(st, parent,
                                              Append(res, pushed(nextBlock)))
       ELSE Append(res, pushed(nextBlock))

\* the do/while loop of performParentScan; the empty list stands for the
\* null it returns when a block named as parent is not stored
RECURSIVE performParentScanWalk(_, _, _)
performParentScanWalk(st, next, res) ==
    LET nextBlock == blocktree_readBlock(st, next)
        parent == IF nextBlock = NoBlock THEN NULL ELSE nextBlock.parent
    IN IF next # NULL /\ nextBlock = NoBlock THEN <<>>
       ELSE IF parent # NULL
       THEN performParentScanWalk(st, parent, Append(res, pushed(nextBlock)))
       ELSE Append(res, pushed(nextBlock))

blocktree_performParentScan(st, ca, block) ==
    IF ~isBlockHash(block)
    THEN Throw(st, ca, "SerializationError", "invalidBlockHash", layer_blockchain)
    ELSE LET res == performParentScanWalk(st, block, <<>>)
         IN IF res = <<>> THEN Return(st, ca, NULL)
            ELSE ReturnList(st, ca, res)

\* getParentBlock as it is called: its readBlock refuses a hash of the wrong
\* size
blocktree_getParentBlockCall(st, ca, block) ==
    IF ~isBlockHash(block)
    THEN Throw(st, ca, "SerializationError", "invalidBlockHash", layer_blockchain)
    ELSE blocktree_getParentBlock(st, ca, block)

\* findAllInBlocks((b) => b.prev === null && b.parent === block), in the
\* order of storage
RECURSIVE findChildRoots(_, _, _)
findChildRoots(st, block, n) ==
    IF n = 0 THEN <<>>
    ELSE LET b == blocktree_readBlock(st, n)
             rest == findChildRoots(st, block, n - 1)
         IN IF b.prev = NULL /\ b.parent = block THEN Append(rest, b.hash)
            ELSE rest

\* mutant: on a miss the scan writes to storage where it should write the
\* childBlocks slot
blocktree_performChildScan_Stores(st, ca, block) ==
    LET cached == readChildCache(ca, block)
    IN IF ca.failing THEN Throw(st, ca, "Error", "cache", "")
       ELSE IF cached.cached
       THEN ReturnList(st, ca, cached.list)
       ELSE LET res == findChildRoots(st, block, Len(st))
            IN ReturnList(IF st = <<>> THEN st ELSE writeStorage(st, st[Len(st)]),
                          ca, res)

blocktree_performChildScan(st, ca, block) ==
    LET cached == readChildCache(ca, block)
    IN IF ca.failing THEN Throw(st, ca, "Error", "cache", "")
       ELSE IF cached.cached
       THEN ReturnList(st, ca, cached.list)
       ELSE LET res == findChildRoots(st, block, Len(st))
            IN ReturnList(st, writeChildCache(ca, block, res), res)

\* mutant: the parent followed is that of the chain's root, not of the block
\* the chain was validated from
RECURSIVE validateBlocktreeWalk_RootParent(_, _, _)
validateBlocktreeWalk_RootParent(st, next, blockCount) ==
    LET validation == validateBlockchainWalk(st, next, 0)
    IN IF ~validation.isValid
       THEN [validation EXCEPT !.blockCount = validation.blockCount + blockCount]
       ELSE LET count == blockCount + validation.blockCount
                nextBlock == blocktree_readBlock(st, blocktree_getRootBlock(st, next))
            IN IF next # NULL /\ nextBlock = NoBlock
               THEN InvalidReport(validation_missingParentBlock, next, count)
               ELSE LET parent == IF nextBlock = NoBlock THEN NULL
                                  ELSE nextBlock.parent
                    IN IF parent # NULL
                       THEN validateBlocktreeWalk_RootParent(st, parent, count)
                       ELSE ValidReport(count)

\* the do/while loop of validateBlocktree
RECURSIVE validateBlocktreeWalk(_, _, _)
validateBlocktreeWalk(st, next, blockCount) ==
    LET validation == validateBlockchainWalk(st, next, 0)
    IN IF ~validation.isValid
       THEN [validation EXCEPT !.blockCount = validation.blockCount + blockCount]
       ELSE LET count == blockCount + validation.blockCount
                nextBlock == blocktree_readBlock(st, next)
            IN IF next # NULL /\ nextBlock = NoBlock
               THEN InvalidReport(validation_missingParentBlock, next, count)
               ELSE LET parent == IF nextBlock = NoBlock THEN NULL
                                  ELSE nextBlock.parent
                    IN IF parent # NULL
                       THEN validateBlocktreeWalk(st, parent, count)
                       ELSE ValidReport(count)

\* mutant: the parent is read with getParentBlock, which throws for no block
blocktree_validateBlocktree_Throws(st, ca, block) ==
    IF ~isBlockHash(block)
    THEN Throw(st, ca, "SerializationError", "invalidBlockHash", layer_blockchain)
    ELSE IF blocktree_readBlock(st, block) = NoBlock
    THEN Throw(st, ca, "InvalidBlockError", "isNull", layer_blocktree)
    ELSE ReturnReport(st, ca, validateBlocktreeWalk(st, block, 0))

blocktree_validateBlocktree(st, ca, block) ==
    IF ~isBlockHash(block)
    THEN Throw(st, ca, "SerializationError", "invalidBlockHash", layer_blockchain)
    ELSE ReturnReport(st, ca, validateBlocktreeWalk(st, block, 0))

\* ------------------------------------------------- L3 secure blocktree
blockType_root == "root"

blockType_zone == "zone"

blockType_identity == "identity"

blockType_collection == "collection"

blockType_keys == "keys"

blockType_options == "options"

BlockTypes ==
    {blockType_root, blockType_zone, blockType_identity, blockType_collection,
     blockType_keys, blockType_options}

\* for each block type, the types of chain it may be written under or onto;
\* a zone under the root block is validateParentBlock's own case
parentBlockTypes ==
    [t \in BlockTypes |->
        CASE t = blockType_root -> {}
          [] t = blockType_zone -> {blockType_zone}
          [] t = blockType_identity -> {blockType_zone}
          [] t = blockType_collection -> {blockType_zone, blockType_identity}
          [] t = blockType_keys ->
                {blockType_root, blockType_zone, blockType_identity,
                 blockType_collection}
          [] t = blockType_options ->
                {blockType_root, blockType_zone, blockType_identity,
                 blockType_collection}]

\* the typed payload: [1 byte type][key set or options][signature]
serializeSecureBlock(secureData) ==
    [prev |-> secureData.prev, parent |-> secureData.parent,
     layer |-> layer_secureBlocktree,
     data |-> [type |-> secureData.type, keys |-> secureData.keys]]

deserializeSecureBlock(btBlockData) ==
    IF btBlockData = NoBlock THEN NoBlock
    ELSE [timestamp |-> btBlockData.timestamp, prev |-> btBlockData.prev,
          parent |-> btBlockData.parent, nonce |-> btBlockData.nonce,
          hash |-> btBlockData.hash, type |-> btBlockData.data.type,
          keys |-> btBlockData.data.keys]

readSecureBlock(st, block) == deserializeSecureBlock(blocktree_readBlock(st, block))

\* mutant: the check for an existing root is left out
writeSecureBlock_NoRootCheck(st, ca, t, secureData) ==
    blocktree_writeBlock(st, ca, t, serializeSecureBlock(secureData),
                         [validate |-> TRUE])

\* mutant: the root check looks at prev where it should look at parent
writeSecureBlock_ChecksPrev(st, ca, t, secureData) ==
    IF secureData.prev = NULL /\ countBlocks(st) > 0
    THEN Throw(st, ca, "InvalidRootError", "", "")
    ELSE blocktree_writeBlock(st, ca, t, serializeSecureBlock(secureData),
                              [validate |-> TRUE])

writeSecureBlock(st, ca, t, secureData) ==
    IF secureData.parent = NULL /\ countBlocks(st) > 0
    THEN Throw(st, ca, "InvalidRootError", "", "")
    ELSE blocktree_writeBlock(st, ca, t, serializeSecureBlock(secureData),
                              [validate |-> TRUE])

\* mutant: selects the chain root of prev, the chain being extended itself
selectParentBlock_OwnChain(st, ca, prev, parent) ==
    IF prev # NULL
    THEN IF blocktree_readBlock(st, prev) = NoBlock
         THEN Throw(st, ca, "InvalidBlockError", "isNull", layer_blocktree)
         ELSE Return(st, ca, blocktree_getRootBlock(st, prev))
    ELSE IF parent # NULL THEN Return(st, ca, blocktree_getRootBlock(st, parent))
    ELSE Return(st, ca, NULL)

\* the block validateParentBlock selects: the parent of prev's block when prev
\* is given, else the chain root of the given parent
selectParentBlock(st, ca, prev, parent) ==
    IF prev # NULL THEN blocktree_getParentBlock(st, ca, prev)
    ELSE IF parent # NULL THEN Return(st, ca, blocktree_getRootBlock(st, parent))
    ELSE Return(st, ca, NULL)

\* mutant: the root-block case lets every type through, not zones alone
validateParentBlock_AnyUnderRoot(st, ca, prev, parent, type) ==
    LET sel == selectParentBlock(st, ca, prev, parent)
    IN IF sel.kind # "ok" THEN sel
       ELSE IF sel.value = NULL
       THEN Throw(st, ca, "InvalidBlockError", "isNull", layer_secureBlocktree)
       ELSE LET selected == sel.value
                blockToValidate ==
                    IF prev # NULL THEN blocktree_getRootBlock(st, prev)
                    ELSE selected
                validateData == readSecureBlock(st, blockToValidate)
            IN IF validateData = NoBlock THEN Throw(st, ca, "TypeError", "", "")
               ELSE IF validateData.type \notin parentBlockTypes[type]
               THEN IF validateData.prev = NULL /\ validateData.parent = NULL
                    THEN Return(st, ca, selected)
                    ELSE Throw(st, ca, "InvalidBlockError", "invalidParentType",
                               layer_secureBlocktree)
               ELSE Return(st, ca, selected)

\* mutant: the check that a block was selected is left out
validateParentBlock_NoNullCheck(st, ca, prev, parent, type) ==
    LET sel == selectParentBlock(st, ca, prev, parent)
    IN IF sel.kind # "ok" THEN sel
       ELSE LET selected == sel.value
                blockToValidate ==
                    IF prev # NULL THEN blocktree_getRootBlock(st, prev)
                    ELSE selected
                validateData == readSecureBlock(st, blockToValidate)
            IN IF validateData = NoBlock THEN Throw(st, ca, "TypeError", "", "")
               ELSE IF validateData.type \notin parentBlockTypes[type]
               THEN IF type = blockType_zone /\ validateData.prev = NULL
                       /\ validateData.parent = NULL
                    THEN Return(st, ca, selected)
                    ELSE Throw(st, ca, "InvalidBlockError", "invalidParentType",
                               layer_secureBlocktree)
               ELSE Return(st, ca, selected)

validateParentBlock(st, ca, prev, parent, type) ==
    LET sel == selectParentBlock(st, ca, prev, parent)
    IN IF sel.kind # "ok" THEN sel
       ELSE IF sel.value = NULL
       THEN Throw(st, ca, "InvalidBlockError", "isNull", layer_secureBlocktree)
       ELSE LET selected == sel.value
                blockToValidate ==
                    IF prev # NULL THEN blocktree_getRootBlock(st, prev)
                    ELSE selected
                validateData == readSecureBlock(st, blockToValidate)
            IN IF validateData = NoBlock THEN Throw(st, ca, "TypeError", "", "")
               ELSE IF validateData.type \notin parentBlockTypes[type]
               THEN IF type = blockType_zone /\ validateData.prev = NULL
                       /\ validateData.parent = NULL
                    THEN Return(st, ca, selected)
                    ELSE Throw(st, ca, "InvalidBlockError", "invalidParentType",
                               layer_secureBlocktree)
               ELSE Return(st, ca, selected)

\* ------------------------------------------- L3 signatures and mutations
\* write keys, each naming a key pair
Keys == {"rootKey", "rootZoneKey", "newKey"}

NoExpiry == 9

KeyEntry(key, validTo) == [key |-> key, validFrom |-> 0, validTo |-> validTo]

rootKeys == {KeyEntry("rootKey", NoExpiry)}

rootZoneKeys == {KeyEntry("rootZoneKey", NoExpiry)}

\* the key sets setKeys is called with: a key in force, or one already expired
NewKeySets == {{KeyEntry("newKey", NoExpiry)}, {KeyEntry("newKey", 0)}}

\* a signer declares pubkey and signs, with the private key of signedBy, the
\* prev and parent it is handed (or, tampered, other bytes)
Signers ==
    {[pubkey |-> k, signedBy |-> k, tampered |-> FALSE] : k \in Keys}
    \cup {[pubkey |-> "rootZoneKey", signedBy |-> "rootZoneKey", tampered |-> TRUE],
          [pubkey |-> "rootZoneKey", signedBy |-> "rootKey", tampered |-> FALSE],
          [pubkey |-> "newKey", signedBy |-> "rootZoneKey", tampered |-> FALSE]}

signBlock(signer, prev, parent) ==
    [pubkey |-> signer.pubkey, signedBy |-> signer.signedBy,
     over |-> IF signer.tampered THEN <<RandomHash, RandomHash>>
              ELSE <<prev, parent>>]

verifySignedBlock(sig, prev, parent) ==
    sig.signedBy = sig.pubkey /\ sig.over = <<prev, parent>>

isKeyValid(entry, now) == entry.validFrom <= now /\ now <= entry.validTo

isKeyBlock(secureBlock) ==
    secureBlock.type \in {blockType_root, blockType_keys} \/ secureBlock.keys # {}

\* the key set in force on the chain rooted at root: that of the most recent
\* block of the chain that carries one
chainKeys(st, root) ==
    LET holders == {b \in 1..Len(st) :
                       /\ blocktree_getRootBlock(st, b) = root
                       /\ isKeyBlock(readSecureBlock(st, b))}
    IN IF holders = {} THEN {}
       ELSE readSecureBlock(st, CHOOSE b \in holders : \A c \in holders : c <= b).keys

\* walks the parent chain roots upward from block, looking for a write key
\* equal to pubkey and in force now
RECURSIVE isAuthorized(_, _, _, _)
isAuthorized(st, block, pubkey, now) ==
    LET root == blocktree_getRootBlock(st, block)
    IN IF root = NULL THEN FALSE
       ELSE IF \E e \in chainKeys(st, root) : e.key = pubkey /\ isKeyValid(e, now)
       THEN TRUE
       ELSE LET parent == blocktree_readBlock(st, root).parent
            IN IF parent = NULL THEN FALSE
               ELSE isAuthorized(st, parent, pubkey, now)

\* mutant: the signature is not verified against the declared key
validateSignature_NoVerify(st, ca, t, sig, prev, parent) ==
    IF ~isAuthorized(st, parent, sig.pubkey, t)
    THEN Throw(st, ca, "InvalidSignatureError", "unauthorized",
               layer_secureBlocktree)
    ELSE Return(st, ca, sig.pubkey)

validateSignature(st, ca, t, sig, prev, parent) ==
    IF ~verifySignedBlock(sig, prev, parent)
    THEN Throw(st, ca, "InvalidSignatureError", "doesNotMatch",
               layer_secureBlocktree)
    ELSE IF ~isAuthorized(st, parent, sig.pubkey, t)
    THEN Throw(st, ca, "InvalidSignatureError", "unauthorized",
               layer_secureBlocktree)
    ELSE Return(st, ca, sig.pubkey)

NewChainTypes == {blockType_zone, blockType_identity, blockType_collection}

\* the envelope of createZone, createIdentity, createCollection (block is the
\* parent of a new chain) and of setKeys, setOptions (block is the prev)
secureMutation(st, ca, t, type, block, signer, keys) ==
    LET prev == IF type \in NewChainTypes THEN NULL ELSE block
        parent == IF type \in NewChainTypes THEN block ELSE NULL
        v == validateParentBlock(st, ca, prev, parent, type)
    IN IF v.kind # "ok" THEN v
       ELSE LET sig == signBlock(signer, prev, v.value)
                a == validateSignature(st, ca, t, sig, prev, v.value)
            IN IF a.kind # "ok" THEN a
               ELSE writeSecureBlock(st, ca, t,
                        [prev |-> prev, parent |-> v.value, type |-> type,
                         keys |-> keys])

installRoot(st, ca, t) ==
    LET r == writeSecureBlock(st, ca, t,
                 [prev |-> NULL, parent |-> NULL, type |-> blockType_root,
                  keys |-> rootKeys])
    IN IF r.kind # "ok" THEN r
       ELSE writeSecureBlock(r.store, r.cache, t,
                [prev |-> NULL, parent |-> r.value, type |-> blockType_zone,
                 keys |-> rootZoneKeys])

\* ---------------------------------------------------------------- calls
\* One call is outstanding at a time: the caller awaits each promise.  result
\* holds the call just made, what it was given, what it returned or threw,
\* and how many blocks were stored when it began.
NoSigner == [pubkey |-> "", signedBy |-> "", tampered |-> FALSE]

\* the broker as inMemoryBrokerFactory() returns it: no authorized keys, no
\* request tokens
NoBroker == [authorizedKeys |-> <<>>, tokens |-> <<>>]

NoRequest ==
    [signedToken |-> NULL, authorizedKey |-> NULL, trustedKey |-> NULL,
     encryptedKeyData |-> NULL]

NoResult ==
    [op |-> "", block |-> NULL, parent |-> NULL, type |-> "", validate |-> TRUE,
     signer |-> NoSigner, kind |-> "", reason |-> "", layer |-> "",
     value |-> NULL, before |-> 0, report |-> NoReport, list |-> <<>>,
     cacheRoot |-> TRUE, data |-> "", read |-> NoBlock, found |-> {},
     isBuffer |-> FALSE, number |-> 0, bytes |-> <<>>,
     request |-> NoRequest, decrypted |-> {}]

NoProcs == <<>>

Settle(call, r, bound) ==
    /\ Len(r.store) <= bound
    /\ store' = r.store
    /\ cache' = r.cache
    /\ result' = [call EXCEPT !.kind = r.kind, !.reason = r.reason,
                              !.layer = r.layer, !.value = r.value,
                              !.before = Len(store),
                              !.report = IF "report" \in DOMAIN r THEN r.report
                                         ELSE NoReport,
                              !.list = IF "list" \in DOMAIN r THEN r.list
                                       ELSE <<>>,
                              !.read = IF "read" \in DOMAIN r THEN r.read
                                       ELSE NoBlock,
                              !.found = IF "found" \in DOMAIN r THEN r.found
                                        ELSE {}]
    /\ UNCHANGED <<time, procs, broker>>

\* the caller takes the value or the exception and goes on to its next call
Await ==
    /\ result.op # ""
    /\ result' = NoResult
    /\ UNCHANGED <<store, cache, time, procs, broker>>

\* the hashes a caller can name: those of stored blocks, none, and one of no
\* block (the hash of a block not yet written cannot be known)
Targets == (1..Len(store)) \cup {NULL, RandomHash}

\* values that stand for no block: false and the all-zero hash (and null,
\* which is among the targets)
EmptyTargets == {False, block_zero}

\* a caller may also hand over half of a stored hash's text
PartialTargets == {partialHash(h) : h \in 1..Len(store)}

InitStore ==
    /\ store = <<>>
    /\ cache = EmptyCache
    /\ time = 1
    /\ result = NoResult
    /\ procs = NoProcs
    /\ broker = NoBroker

\* ------------------------------------------------- the secure layer's API
SecureCall(op, type, block, signer, keys) ==
    Settle([NoResult EXCEPT !.op = op, !.type = type, !.block = block,
                            !.signer = signer],
           secureMutation(store, cache, time, type, block, signer, keys),
           MaxSecureBlocks)

InstallRoot ==
    /\ result.op = ""
    /\ Settle([NoResult EXCEPT !.op = "installRoot", !.type = blockType_root],
              installRoot(store, cache, time), MaxSecureBlocks)

CreateZone ==
    \E block \in Targets, signer \in Signers :
        /\ result.op = ""
        /\ SecureCall("createZone", blockType_zone, block, signer, {})

CreateIdentity ==
    \E block \in Targets, signer \in Signers :
        /\ result.op = ""
        /\ SecureCall("createIdentity", blockType_identity, block, signer, {})

CreateCollection ==
    \E block \in Targets, signer \in Signers :
        /\ result.op = ""
        /\ SecureCall("createCollection", blockType_collection, block, signer, {})

SetKeys ==
    \E block \in Targets, signer \in Signers, keys \in NewKeySets :
        /\ result.op = ""
        /\ SecureCall("setKeys", blockType_keys, block, signer, keys)

SetOptions ==
    \E block \in Targets, signer \in Signers :
        /\ result.op = ""
        /\ SecureCall("setOptions", blockType_options, block, signer, {})

\* writeSecureBlock called with a parentless root block, as installRoot's
\* first write does
WriteSecureBlock ==
    \E prev \in Targets :
        /\ result.op = ""
        /\ Settle([NoResult EXCEPT !.op = "writeSecureBlock",
                                   !.type = blockType_root, !.block = prev],
                  writeSecureBlock(store, cache, time,
                      [prev |-> prev, parent |-> NULL, type |-> blockType_root,
                       keys |-> rootKeys]),
                  MaxSecureBlocks)

NextSecure ==
    \/ InstallRoot
    \/ WriteSecureBlock
    \/ CreateZone
    \/ CreateIdentity
    \/ CreateCollection
    \/ SetKeys
    \/ SetOptions
    \/ Await

SpecSecure == InitStore /\ [][NextSecure]_vars

\* ------------------------------------------------ the L1 and L2 API
\* bytes handed to L1 directly: their blocktree header names no parent
RawData == serializeBlocktreeData([prev |-> NULL, parent |-> NULL, layer |-> "",
                                   data |-> ""]).data

BlockchainWriteBlock ==
    \E prev \in Targets, validate \in BOOLEAN :
        /\ result.op = ""
        /\ Settle([NoResult EXCEPT !.op = "blockchain.writeBlock",
                                   !.block = prev, !.validate = validate],
                  blockchain_writeBlock(store, cache, time,
                      [prev |-> prev, data |-> RawData],
                      [validate |-> validate]),
                  MaxBlocks)

BlocktreeWriteBlock ==
    \E prev \in Targets, parent \in Targets \cup PartialTargets,
       validate \in BOOLEAN :
        /\ result.op = ""
        /\ Settle([NoResult EXCEPT !.op = "blocktree.writeBlock",
                                   !.block = prev, !.parent = parent,
                                   !.validate = validate],
                  blocktree_writeBlock(store, cache, time,
                      [prev |-> prev, parent |-> parent, layer |-> "",
                       data |-> ""],
                      [validate |-> validate]),
                  MaxBlocks)

SetNextTimestamp ==
    \E t \in Timestamps :
        /\ result.op = ""
        /\ t # time
        /\ time' = t
        /\ UNCHANGED <<store, cache, result, procs, broker>>

ValidateBlockchain ==
    \E block \in Targets \cup PartialTargets :
        /\ result.op = ""
        /\ Settle([NoResult EXCEPT !.op = "validateBlockchain", !.block = block],
                  blockchain_validateBlockchain(store, cache, block), MaxBlocks)

ValidateBlocktree ==
    \E block \in Targets \cup PartialTargets :
        /\ result.op = ""
        /\ Settle([NoResult EXCEPT !.op = "validateBlocktree", !.block = block],
                  blocktree_validateBlocktree(store, cache, block), MaxBlocks)

PerformChildScan ==
    \E block \in Targets \ {NULL} :
        /\ result.op = ""
        /\ Settle([NoResult EXCEPT !.op = "performChildScan", !.block = block],
                  blocktree_performChildScan(store, cache, block), MaxBlocks)

Next ==
    \/ BlockchainWriteBlock
    \/ BlocktreeWriteBlock
    \/ Await

Spec == InitStore /\ [][Next]_vars

\* L1 with the time mock: chains written at chosen timestamps, and validated
NextTime ==
    \/ BlockchainWriteBlock
    \/ SetNextTimestamp
    \/ ValidateBlockchain
    \/ Await

SpecTime == InitStore /\ [][NextTime]_vars

\* trees written through L2, and validated
NextValidate ==
    \/ BlocktreeWriteBlock
    \/ ValidateBlockchain
    \/ ValidateBlocktree
    \/ Await

SpecValidate == InitStore /\ [][NextValidate]_vars

\* trees written through L2, and their child chains listed
NextScan ==
    \/ BlocktreeWriteBlock
    \/ PerformChildScan
    \/ Await

SpecScan == InitStore /\ [][NextScan]_vars

\* validated L1 writes with the cacheRoot option given, and the L1 reads
BlockchainWriteBlockOptions ==
    \E prev \in Targets, cacheRoot \in BOOLEAN :
        /\ result.op = ""
        /\ Settle([NoResult EXCEPT !.op = "blockchain.writeBlock",
                                   !.block = prev, !.cacheRoot = cacheRoot],
                  blockchain_writeBlock(store, cache, time,
                      [prev |-> prev, data |-> RawData],
                      [validate |-> TRUE, cacheRoot |-> cacheRoot]),
                  MaxBlocks)

GetNextBlock ==
    \E block \in Targets \cup PartialTargets :
        /\ result.op = ""
        /\ Settle([NoResult EXCEPT !.op = "getNextBlock", !.block = block],
                  blockchain_getNextBlock(store, cache, block), MaxBlocks)

GetHeadBlock ==
    \E block \in Targets \cup PartialTargets :
        /\ result.op = ""
        /\ Settle([NoResult EXCEPT !.op = "getHeadBlock", !.block = block],
                  blockchain_getHeadBlock(store, cache, block), MaxBlocks)

GetRootBlock ==
    \E block \in Targets \cup PartialTargets :
        /\ result.op = ""
        /\ Settle([NoResult EXCEPT !.op = "getRootBlock", !.block = block],
                  blockchain_getRootBlockCall(store, cache, block), MaxBlocks)

BlockchainReadBlock ==
    \E block \in Targets \cup PartialTargets \cup EmptyTargets :
        /\ result.op = ""
        /\ Settle([NoResult EXCEPT !.op = "blockchain.readBlock",
                                   !.block = block],
                  blockchain_readBlockCall(store, cache, block), MaxBlocks)

NextHead ==
    \/ BlockchainWriteBlockOptions
    \/ GetNextBlock
    \/ GetHeadBlock
    \/ GetRootBlock
    \/ BlockchainReadBlock
    \/ Await

SpecHead == InitStore /\ [][NextHead]_vars

PerformParentScan ==
    \E block \in Targets \cup PartialTargets :
        /\ result.op = ""
        /\ Settle([NoResult EXCEPT !.op = "performParentScan", !.block = block],
                  blocktree_performParentScan(store, cache, block), MaxBlocks)

GetParentBlock ==
    \E block \in Targets \cup PartialTargets :
        /\ result.op = ""
        /\ Settle([NoResult EXCEPT !.op = "getParentBlock", !.block = block],
                  blocktree_getParentBlockCall(store, cache, block), MaxBlocks)

\* trees written through L2, and the parent links read from them
NextTree ==
    \/ BlocktreeWriteBlock
    \/ PerformParentScan
    \/ GetParentBlock
    \/ Await

SpecTree == InitStore /\ [][NextTree]_vars

\* the cache collaborator starts to raise, or stops
CacheFails ==
    /\ result.op = ""
    /\ cache' = [cache EXCEPT !.failing = ~@]
    /\ UNCHANGED <<store, time, result, procs, broker>>

\* validated L2 writes
BlocktreeWriteValidated ==
    \E prev \in Targets, parent \in Targets :
        /\ result.op = ""
        /\ Settle([NoResult EXCEPT !.op = "blocktree.writeBlock",
                                   !.block = prev, !.parent = parent],
                  blocktree_writeBlock(store, cache, time,
                      [prev |-> prev, parent |-> parent, layer |-> "",
                       data |-> ""],
                      [validate |-> TRUE]),
                  MaxCacheBlocks)

\* trees written and child chains listed while the cache may raise
NextCache ==
    \/ BlocktreeWriteValidated
    \/ PerformChildScan
    \/ CacheFails
    \/ Await

SpecCache == InitStore /\ [][NextCache]_vars

\* the awaits of a write after which the process may stop: the bytes are
\* stored and the cache updates that follow are lost
CrashPoints == {"writeStorage", "cacheRootBlock", "writeCache"}

\* the cache as a validated L2 write leaves it when it stops after that await
cacheAtCrash(st, ca, t, btBlockData, point) ==
    LET bcBlockData == serializeBlocktreeData(btBlockData)
        r == blockchain_writeBlock(st, ca, t, bcBlockData, [validate |-> TRUE])
        cr == cacheRootBlock(r.store, ca, r.value, bcBlockData)
    IN IF point = "writeStorage" THEN ca
       ELSE IF point = "cacheRootBlock" THEN cr.cache
       ELSE r.cache

\* a validated L2 write that stores its block and stops before it has
\* updated the caches; no value is returned to a caller
WriteCrashes ==
    \E prev \in Targets, parent \in Targets, point \in CrashPoints :
        LET btBlockData == [prev |-> prev, parent |-> parent, layer |-> "",
                            data |-> ""]
            r == blocktree_writeBlock(store, cache, time, btBlockData,
                                      [validate |-> TRUE])
        IN /\ result.op = ""
           /\ r.kind = "ok"
           /\ Len(r.store) <= MaxCacheBlocks
           /\ store' = r.store
           /\ cache' = cacheAtCrash(store, cache, time, btBlockData, point)
           /\ UNCHANGED <<time, result, procs, broker>>

\* validated L2 writes, some of which stop before the cache is updated, and
\* the reads that consult the cache
NextCrash ==
    \/ BlocktreeWriteValidated
    \/ WriteCrashes
    \/ PerformChildScan
    \/ GetHeadBlock
    \/ GetNextBlock
    \/ GetRootBlock
    \/ Await

SpecCrash == InitStore /\ [][NextCrash]_vars

\* the payloads written by the tests
Payloads == {"I'm a string!", "I'm another string!"}

\* bytes handed to L1 directly that carry a payload
PayloadData(data) ==
    serializeBlocktreeData([prev |-> NULL, parent |-> NULL, layer |-> "",
                            data |-> data]).data

BlockchainWriteData ==
    \E prev \in Targets, validate \in BOOLEAN, data \in Payloads :
        /\ result.op = ""
        /\ Settle([NoResult EXCEPT !.op = "blockchain.writeBlock",
                                   !.block = prev, !.validate = validate,
                                   !.data = data],
                  blockchain_writeBlock(store, cache, time,
                      [prev |-> prev, data |-> PayloadData(data)],
                      [validate |-> validate]),
                  MaxReadBlocks)

BlocktreeWriteData ==
    \E prev \in Targets, parent \in Targets, validate \in BOOLEAN,
       data \in Payloads :
        /\ result.op = ""
        /\ Settle([NoResult EXCEPT !.op = "blocktree.writeBlock",
                                   !.block = prev, !.parent = parent,
                                   !.validate = validate, !.data = data],
                  blocktree_writeBlock(store, cache, time,
                      [prev |-> prev, parent |-> parent, layer |-> "",
                       data |-> data],
                      [validate |-> validate]),
                  MaxReadBlocks)

BlocktreeReadBlock ==
    \E block \in Targets \cup PartialTargets \cup EmptyTargets :
        /\ result.op = ""
        /\ Settle([NoResult EXCEPT !.op = "blocktree.readBlock",
                                   !.block = block],
                  blocktree_readBlockCall(store, cache, block), MaxReadBlocks)

\* the prefixes a caller lists by: none, a whole hash, half a stored hash,
\* and half of a hash that is not stored
Prefixes == Targets \cup PartialTargets \cup {partialHash(Len(store) + 1)}

BlockchainListBlocks ==
    \E partial \in Prefixes :
        /\ result.op = ""
        /\ Settle([NoResult EXCEPT !.op = "blockchain.listBlocks",
                                   !.block = partial],
                  blockchain_listBlocks(store, cache, partial), MaxReadBlocks)

BlocktreeListBlocks ==
    \E partial \in Prefixes :
        /\ result.op = ""
        /\ Settle([NoResult EXCEPT !.op = "blocktree.listBlocks",
                                   !.block = partial],
                  blocktree_listBlocks(store, cache, partial), MaxReadBlocks)

\* blocks with a payload written through L1 and L2, read back and listed
NextRead ==
    \/ BlockchainWriteData
    \/ BlocktreeWriteData
    \/ BlockchainReadBlock
    \/ BlocktreeReadBlock
    \/ BlockchainListBlocks
    \/ BlocktreeListBlocks
    \/ Await

SpecRead == InitStore /\ [][NextRead]_vars

\* ------------------------------------------- fixed-width integer codecs
size_byte == 1

size_int16 == 2

size_int32 == 4

size_int64 == 8

\* the largest value of a width of w bytes
maxOfSize(w) == Radix ^ w - 1

max_byte == maxOfSize(size_byte)

max_int16 == maxOfSize(size_int16)

max_int32 == maxOfSize(size_int32)

max_int64 == maxOfSize(size_int64)

\* what an encoder is given: a number, or a Buffer
NumberValue(n) == [isBuffer |-> FALSE, number |-> n, bytes |-> <<>>]

BufferValue(bytes) == [isBuffer |-> TRUE, number |-> 0, bytes |-> bytes]

Encoded(bytes) ==
    [kind |-> "ok", reason |-> "", layer |-> "", bytes |-> bytes]

\* new SerializationError(..., argumentOutOfBounds): no layer is given
OutOfBounds ==
    [kind |-> "SerializationError", reason |-> "argumentOutOfBounds",
     layer |-> "", bytes |-> <<>>]

\* buf.writeUIntBE: w bytes, the most significant first
RECURSIVE writeUIntBE(_, _)
writeUIntBE(val, w) ==
    IF w = 0 THEN <<>>
    ELSE Append(writeUIntBE(val \div Radix, w - 1), val % Radix)

\* buf.readUIntBE at a 0-based index: w bytes, the most significant first
RECURSIVE readUIntBE(_, _, _)
readUIntBE(buf, index, w) ==
    IF w = 0 THEN 0
    ELSE readUIntBE(buf, index, w - 1) * Radix + buf[index + w]

toInt64(buf, index) == readUIntBE(buf, index, size_int64)

toInt32(buf, index) == readUIntBE(buf, index, size_int32)

toInt16(buf, index) == readUIntBE(buf, index, size_int16)

toByte(buf, index) == buf[index + 1]

fromInt64(val) ==
    IF val.isBuffer
    THEN IF Len(val.bytes) # size_int64 THEN OutOfBounds ELSE Encoded(val.bytes)
    ELSE IF val.number < 0 \/ val.number > max_int64 THEN OutOfBounds
    ELSE Encoded(writeUIntBE(val.number, size_int64))

\* mutant: the upper end of the range is not checked
fromInt32_NoUpperCheck(val) ==
    IF val.isBuffer
    THEN IF Len(val.bytes) # size_int32 THEN OutOfBounds ELSE Encoded(val.bytes)
    ELSE IF val.number < 0 THEN OutOfBounds
    ELSE Encoded(writeUIntBE(val.number, size_int32))

fromInt32(val) ==
    IF val.isBuffer
    THEN IF Len(val.bytes) # size_int32 THEN OutOfBounds ELSE Encoded(val.bytes)
    ELSE IF val.number < 0 \/ val.number > max_int32 THEN OutOfBounds
    ELSE Encoded(writeUIntBE(val.number, size_int32))

\* a Buffer is measured against the size of an int32
fromInt16(val) ==
    IF val.isBuffer
    THEN IF Len(val.bytes) # size_int32 THEN OutOfBounds ELSE Encoded(val.bytes)
    ELSE IF val.number < 0 \/ val.number > max_int16 THEN OutOfBounds
    ELSE Encoded(writeUIntBE(val.number, size_int16))

fromByte(val) ==
    IF val.isBuffer
    THEN IF Len(val.bytes) # size_byte THEN OutOfBounds ELSE Encoded(val.bytes)
    ELSE IF val.number < 0 \/ val.number > max_byte THEN OutOfBounds
    ELSE Encoded(<<val.number>>)

\* the values handed to an encoder of w bytes: every number from one below
\* its range to one above, and Buffers of every length up to one more than
\* the longest width
MaxBufferLength == size_int64 + 1

Buffer_alloc(n) == [i \in 1..n |-> 0]

EncoderInputs(w) ==
    {NumberValue(n) : n \in (0 - 1)..(maxOfSize(w) + 1)}
        \cup {BufferValue(Buffer_alloc(n)) : n \in 0..MaxBufferLength}

Converted(op, val, r) ==
    /\ result' = [NoResult EXCEPT !.op = op, !.isBuffer = val.isBuffer,
                                  !.number = val.number, !.kind = r.kind,
                                  !.reason = r.reason, !.layer = r.layer,
                                  !.bytes = r.bytes,
                                  !.before = Len(val.bytes)]
    /\ UNCHANGED <<store, cache, time, procs, broker>>

FromByte ==
    \E val \in EncoderInputs(size_byte) :
        /\ result.op = ""
        /\ Converted("fromByte", val, fromByte(val))

FromInt16 ==
    \E val \in EncoderInputs(size_int16) :
        /\ result.op = ""
        /\ Converted("fromInt16", val, fromInt16(val))

FromInt32 ==
    \E val \in EncoderInputs(size_int32) :
        /\ result.op = ""
        /\ Converted("fromInt32", val, fromInt32(val))

FromInt64 ==
    \E val \in EncoderInputs(size_int64) :
        /\ result.op = ""
        /\ Converted("fromInt64", val, fromInt64(val))

NextConvert ==
    \/ FromByte
    \/ FromInt16
    \/ FromInt32
    \/ FromInt64
    \/ Await

SpecConvert == InitStore /\ [][NextConvert]_vars

\* --------------------------------------------- the trusted secrets broker
\* key pairs are named by a number; the secrets are encrypted for DataKey,
\* whose private key travels encrypted for an authorized key
BrokerKeys == 1..MaxKeys

DataKey == 0

privateKeyOf(publicKey) == [of |-> publicKey]

\* utils/crypto: what is encrypted for a public key is read with its
\* private key and with no other
encrypt(publicKey, data) == [key |-> publicKey, data |-> data]

CannotDecrypt == [failed |-> TRUE]

decrypt(privateKey, encrypted) ==
    IF encrypted.key = privateKey.of THEN encrypted.data ELSE CannotDecrypt

\* buffer.toString(encoding): the text of a key; the base64 text of a key is
\* never its utf8 text
toString(buffer, encoding) == <<encoding, buffer>>

\* the name of the property that object[key] reads: a string names itself,
\* a Buffer is turned into text with its toString(), which is utf8
propertyName(key) ==
    IF key.isBuffer THEN toString(key.bytes, "utf8") ELSE key.text

AsBuffer(publicKey) == [isBuffer |-> TRUE, bytes |-> publicKey]

AsBase64(publicKey) ==
    [isBuffer |-> FALSE, text |-> toString(publicKey, "base64")]

\* object[name] = value
Put(object, name, value) ==
    [n \in DOMAIN object \cup {name} |->
        IF n = name THEN value ELSE object[n]]

\* delete object[name]
Delete(object, name) == [n \in DOMAIN object \ {name} |-> object[n]]

\* a nonce that no earlier call was given
freshToken(br) == Cardinality(DOMAIN br.tokens) + 1

generateRequestToken(br, trustedKey) ==
    LET token == freshToken(br)
    IN [broker |-> [br EXCEPT !.tokens =
                       Put(@, toString(token, "base64"), trustedKey)],
        kind |-> "ok", reason |-> "", value |-> token]

addAuthorizedKey(br, publicKey, privateKey) ==
    [br EXCEPT !.authorizedKeys =
        Put(@, toString(publicKey, "base64"), privateKey)]

revokeAuthorizedKey(br, publicKey) ==
    [br EXCEPT !.authorizedKeys = Delete(@, toString(publicKey, "base64"))]

Brokered(kind, reason, list, decrypted) ==
    [kind |-> kind, reason |-> reason, list |-> list, decrypted |-> decrypted]

buildTrustedSecrets(br, request, secrets) ==
    LET name == propertyName(request.authorizedKey)
    IN IF name \notin DOMAIN br.authorizedKeys
       THEN Brokered("InvalidKeyError", "", <<>>, {})
       ELSE IF request.signedToken = NULL
       THEN Brokered("InvalidSignatureError", "doesNotMatch", <<>>, {})
       ELSE LET newPrivateKey == decrypt(br.authorizedKeys[name],
                                         request.encryptedKeyData)
            IN IF newPrivateKey = CannotDecrypt
               THEN Brokered("Error", "", <<>>, {})
               ELSE Brokered("ok", "",
                        [i \in 1..Len(secrets) |->
                            encrypt(request.trustedKey,
                                    decrypt(newPrivateKey, secrets[i]))],
                        {decrypt(newPrivateKey, secrets[i]) :
                            i \in 1..Len(secrets)})

\* the secrets a caller hands over
Secrets == <<encrypt(DataKey, "secret")>>

GenerateRequestToken ==
    \E trustedKey \in BrokerKeys :
        /\ result.op = ""
        /\ Cardinality(DOMAIN broker.tokens) < MaxTokens
        /\ LET r == generateRequestToken(broker, trustedKey)
           IN /\ broker' = r.broker
              /\ result' = [NoResult EXCEPT !.op = "generateRequestToken",
                                            !.kind = r.kind, !.value = r.value]
        /\ UNCHANGED <<store, cache, time, procs>>

AddAuthorizedKey ==
    \E publicKey \in BrokerKeys :
        /\ result.op = ""
        /\ broker' = addAuthorizedKey(broker, publicKey, privateKeyOf(publicKey))
        /\ result' = [NoResult EXCEPT !.op = "addAuthorizedKey", !.kind = "ok"]
        /\ UNCHANGED <<store, cache, time, procs>>

RevokeAuthorizedKey ==
    \E publicKey \in BrokerKeys :
        /\ result.op = ""
        /\ broker' = revokeAuthorizedKey(broker, publicKey)
        /\ result' = [NoResult EXCEPT !.op = "revokeAuthorizedKey",
                                      !.kind = "ok"]
        /\ UNCHANGED <<store, cache, time, procs>>

\* the caller names the authorized key by its Buffer or by its base64 text,
\* and sends a token it was given, one it made up, or none
BuildTrustedSecrets ==
    \E signedToken \in (1..MaxTokens) \cup {NULL},
       authorizedKey \in {AsBuffer(k) : k \in BrokerKeys}
                            \cup {AsBase64(k) : k \in BrokerKeys},
       trustedKey \in BrokerKeys, keyDataFor \in BrokerKeys :
        /\ result.op = ""
        /\ LET request ==
                   [signedToken |-> signedToken, authorizedKey |-> authorizedKey,
                    trustedKey |-> trustedKey,
                    encryptedKeyData |->
                        encrypt(keyDataFor, privateKeyOf(DataKey))]
               r == buildTrustedSecrets(broker, request, Secrets)
           IN result' = [NoResult EXCEPT !.op = "buildTrustedSecrets",
                             !.request = request, !.kind = r.kind,
                             !.reason = r.reason, !.list = r.list,
                             !.decrypted = r.decrypted]
        /\ UNCHANGED <<store, cache, time, procs, broker>>

NextBroker ==
    \/ GenerateRequestToken
    \/ AddAuthorizedKey
    \/ RevokeAuthorizedKey
    \/ BuildTrustedSecrets
    \/ Await

SpecBroker == InitStore /\ [][NextBroker]_vars

\* ------------------------------------- every read beside validated writes
\* countBlocks of the blocktree layer, which hands on the blockchain layer's
BlocktreeCountBlocks ==
    /\ result.op = ""
    /\ Settle([NoResult EXCEPT !.op = "countBlocks"],
              Return(store, cache, countBlocks(store)), MaxBlocks)

NextFrame ==
    \/ BlocktreeWriteValidated
    \/ BlockchainReadBlock
    \/ BlocktreeReadBlock
    \/ BlocktreeListBlocks
    \/ BlocktreeCountBlocks
    \/ GetNextBlock
    \/ GetRootBlock
    \/ GetHeadBlock
    \/ GetParentBlock
    \/ PerformParentScan
    \/ PerformChildScan
    \/ ValidateBlockchain
    \/ ValidateBlocktree
    \/ Await

SpecFrame == InitStore /\ [][NextFrame]_vars

\* ------------------------------- the links of stores of validated writes
BlocktreeWriteLinked ==
    \E prev \in Targets, parent \in Targets :
        /\ result.op = ""
        /\ Settle([NoResult EXCEPT !.op = "blocktree.writeBlock",
                                   !.block = prev, !.parent = parent],
                  blocktree_writeBlock(store, cache, time,
                      [prev |-> prev, parent |-> parent, layer |-> "",
                       data |-> ""],
                      [validate |-> TRUE]),
                  MaxLinkBlocks)

NextLinks ==
    \/ BlocktreeWriteLinked
    \/ GetRootBlock
    \/ PerformParentScan
    \/ ValidateBlocktree
    \/ Await

SpecLinks == InitStore /\ [][NextLinks]_vars

\* ------------------------- performChildScan running beside L2 writes
\* One caller runs performChildScan one step per await of the code: the read
\* of the childBlocks slot, the scan of storage, and the write of the slot.
\* Writes and further scans by other callers run between its steps.
Scanner == 1

IdleScan == [pc |-> "idle", block |-> NULL, list |-> <<>>]

InitScanRace ==
    /\ store = <<>>
    /\ cache = EmptyCache
    /\ time = 1
    /\ result = NoResult
    /\ procs = [p \in {Scanner} |-> IdleScan]
    /\ broker = NoBroker

\* performChildScan(block) is called
BeginScan ==
    \E block \in 1..Len(store) :
        /\ procs[Scanner].pc = "idle"
        /\ procs' = [procs EXCEPT ![Scanner] =
               [IdleScan EXCEPT !.pc = "readCache", !.block = block]]
        /\ UNCHANGED <<store, cache, time, result, broker>>

\* await cache.readCache(block, childBlocks): a cached list is returned
ScanReadCache ==
    /\ procs[Scanner].pc = "readCache"
    /\ procs' = [procs EXCEPT ![Scanner] =
           IF readChildCache(cache, procs[Scanner].block).cached
           THEN IdleScan
           ELSE [@ EXCEPT !.pc = "findAllInBlocks"]]
    /\ UNCHANGED <<store, cache, time, result, broker>>

\* await findAllInBlocks(...)
ScanFindAllInBlocks ==
    /\ procs[Scanner].pc = "findAllInBlocks"
    /\ procs' = [procs EXCEPT ![Scanner] =
           [@ EXCEPT !.pc = "writeCache",
                     !.list = findChildRoots(store, procs[Scanner].block,
                                             Len(store))]]
    /\ UNCHANGED <<store, cache, time, result, broker>>

\* await cache.writeCache(block, childBlocks, hashes); return result
ScanWriteCache ==
    /\ procs[Scanner].pc = "writeCache"
    /\ cache' = writeChildCache(cache, procs[Scanner].block, procs[Scanner].list)
    /\ procs' = [procs EXCEPT ![Scanner] = IdleScan]
    /\ UNCHANGED <<store, time, result, broker>>

NextScanRace ==
    \/ BeginScan
    \/ ScanReadCache
    \/ ScanFindAllInBlocks
    \/ ScanWriteCache
    \/ BlocktreeWriteValidated
    \/ PerformChildScan
    \/ Await

SpecScanRace == InitScanRace /\ [][NextScanRace]_vars

\* ---------------------------------- two callers of L1 writeBlock at once
\* Each caller runs writeBlock with validation on, one step per await of the
\* code: the read of prev, the write of the bytes, cacheRootBlock, and the
\* write of the headBlock slot.
Procs == {1, 2}

IdleProc ==
    [pc |-> "idle", prev |-> NULL, began |-> 0, block |-> NULL, root |-> NULL,
     kind |-> ""]

InitRace ==
    /\ store = <<>>
    /\ cache = EmptyCache
    /\ time = 1
    /\ result = NoResult
    /\ procs = [p \in Procs |-> IdleProc]
    /\ broker = NoBroker

\* writeBlock is called: validation is on
Begin(p) ==
    \E prev \in Targets :
        /\ procs[p].pc \in {"idle", "done", "failed"}
        /\ procs' = [procs EXCEPT ![p] =
               [IdleProc EXCEPT !.pc = "readPrev", !.prev = prev,
                                !.began = Len(store)]]
        /\ UNCHANGED <<store, cache, time, result, broker>>

\* await readBlock(prev), and the throw when there is no such block
ReadPrev(p) ==
    /\ procs[p].pc = "readPrev"
    /\ procs' = [procs EXCEPT ![p] =
           IF procs[p].prev # NULL
              /\ blockchain_readBlock(store, procs[p].prev) = NoBlock
           THEN [@ EXCEPT !.pc = "failed", !.kind = "Error"]
           ELSE [@ EXCEPT !.pc = "writeStorage"]]
    /\ UNCHANGED <<store, cache, time, result, broker>>

\* await system.writeStorage(serializeBlockData(bcBlockData))
WriteStorage(p) ==
    /\ procs[p].pc = "writeStorage"
    /\ Len(store) < MaxRaceBlocks
    /\ LET buf == serializeBlockData([prev |-> procs[p].prev, data |-> RawData],
                                     generateNonce(store), generateTimestamp(time))
       IN /\ store' = writeStorage(store, buf)
          /\ procs' = [procs EXCEPT ![p] =
                 [@ EXCEPT !.pc = "cacheRootBlock", !.block = generateHash(buf)]]
    /\ UNCHANGED <<cache, time, result, broker>>

\* await cacheRootBlock(block, bcBlockData)
CacheRootBlock(p) ==
    /\ procs[p].pc = "cacheRootBlock"
    /\ LET cr == cacheRootBlock(store, cache, procs[p].block,
                                [prev |-> procs[p].prev, data |-> RawData])
       IN /\ cache' = cr.cache
          /\ procs' = [procs EXCEPT ![p] =
                 [@ EXCEPT !.pc = "writeHead", !.root = cr.root]]
    /\ UNCHANGED <<store, time, result, broker>>

\* await system.writeCache(root, headBlock, block); return block
WriteHead(p) ==
    /\ procs[p].pc = "writeHead"
    /\ cache' = writeCache(cache, procs[p].root, cache_headBlock, procs[p].block)
    /\ procs' = [procs EXCEPT ![p] = [@ EXCEPT !.pc = "done", !.kind = "ok"]]
    /\ UNCHANGED <<store, time, result, broker>>

NextRace ==
    \E p \in Procs :
        \/ Begin(p)
        \/ ReadPrev(p)
        \/ WriteStorage(p)
        \/ CacheRootBlock(p)
        \/ WriteHead(p)

SpecRace == InitRace /\ [][NextRace]_vars

\* ------------------------------ two callers of writeSecureBlock at once
\* Each caller runs writeSecureBlock with a parentless block, one step per
\* await of the code: the count of the stored blocks, then the write.
BeginSecureWrite(p) ==
    \E prev \in Targets :
        /\ procs[p].pc \in {"idle", "done", "failed"}
        /\ procs' = [procs EXCEPT ![p] =
               [IdleProc EXCEPT !.pc = "countBlocks", !.prev = prev,
                                !.began = Len(store)]]
        /\ UNCHANGED <<store, cache, time, result, broker>>

\* if (await blocktree.countBlocks() > 0) throw new InvalidRootError()
CountBlocks(p) ==
    /\ procs[p].pc = "countBlocks"
    /\ procs' = [procs EXCEPT ![p] =
           IF countBlocks(store) > 0
           THEN [@ EXCEPT !.pc = "failed", !.kind = "InvalidRootError"]
           ELSE [@ EXCEPT !.pc = "writeBlock"]]
    /\ UNCHANGED <<store, cache, time, result, broker>>

\* return blocktree.writeBlock(context.serializeSecureBlock(secureData))
SecureWriteBlock(p) ==
    /\ procs[p].pc = "writeBlock"
    /\ Len(store) < MaxRaceBlocks
    /\ LET r == blocktree_writeBlock(store, cache, time,
                    serializeSecureBlock([prev |-> procs[p].prev,
                        parent |-> NULL, type |-> blockType_root,
                        keys |-> rootKeys]),
                    [validate |-> TRUE])
       IN /\ store' = r.store
          /\ cache' = r.cache
          /\ procs' = [procs EXCEPT ![p] =
                 IF r.kind = "ok"
                 THEN [@ EXCEPT !.pc = "done", !.kind = "ok", !.block = r.value]
                 ELSE [@ EXCEPT !.pc = "failed", !.kind = r.kind]]
    /\ UNCHANGED <<time, result, broker>>

NextSecureRace ==
    \E p \in Procs :
        \/ BeginSecureWrite(p)
        \/ CountBlocks(p)
        \/ SecureWriteBlock(p)

SpecSecureRace == InitRace /\ [][NextSecureRace]_vars

\* ------------------------------------------------ what the claims speak of
\* the storage as it was when the call held in result began
Before == SubSeq(store, 1, result.before)

WroteNothing == Len(store) = result.before

IsMutation ==
    result.op \in {"createZone", "createIdentity", "createCollection",
                   "setKeys", "setOptions"}

CallPrev == IF result.type \in NewChainTypes THEN NULL ELSE result.block

CallParent == IF result.type \in NewChainTypes THEN result.block ELSE NULL

\* the chain root whose type the parent-type rule looks at
ResolvedBlock == blocktree_getRootBlock(Before, result.block)

TargetAccepted ==
    /\ IsMutation
    /\ validateParentBlock(Before, cache, CallPrev, CallParent, result.type).kind
           = "ok"

\* where the walk for an authorizing key starts: the parent chain of the chain
\* being extended, or the chain the new chain is put under
WalkStart ==
    IF result.type \in NewChainTypes THEN ResolvedBlock
    ELSE blocktree_readBlock(Before, ResolvedBlock).parent

RECURSIVE AncestorRoots(_, _)
AncestorRoots(st, block) ==
    LET root == blocktree_getRootBlock(st, block)
    IN IF root = NULL THEN {}
       ELSE {root} \cup AncestorRoots(st, blocktree_readBlock(st, root).parent)

HonestSigner == result.signer.signedBy = result.signer.pubkey /\ ~result.signer.tampered

\* the key is in some key set ever written on the chains rooted in roots
KeyAppearsOn(st, roots, key) ==
    \E b \in 1..Len(st) :
        /\ blocktree_getRootBlock(st, b) \in roots
        /\ \E e \in readSecureBlock(st, b).keys : e.key = key

\* the key is in force now in the current key set of a chain rooted in roots
KeyInForceOn(st, roots, key) ==
    \E root \in roots :
        \E e \in chainKeys(st, root) : e.key = key /\ isKeyValid(e, time)

RootBlocks(st) ==
    {b \in 1..Len(st) :
        blocktree_readBlock(st, b).prev = NULL /\ blocktree_readBlock(st, b).parent = NULL}

\* ------------------------------------------------------ claims, L3
\* the parent-type table of the specification: parent type -> legal children
LegalChildren ==
    [pt \in BlockTypes |->
        CASE pt = blockType_root ->
                {blockType_zone, blockType_keys, blockType_options}
          [] pt = blockType_zone ->
                {blockType_zone, blockType_identity, blockType_collection,
                 blockType_keys, blockType_options}
          [] pt = blockType_identity ->
                {blockType_collection, blockType_keys, blockType_options}
          [] pt = blockType_collection -> {blockType_keys, blockType_options}
          [] OTHER -> {}]

\* C3: a parentless write (installRoot, or writeSecureBlock of a root block)
\* succeeds only on empty storage and otherwise fails with InvalidRootError,
\* writing nothing; storage that holds anything holds exactly one block with
\* neither prev nor parent.
C3_SingleRoot ==
    /\ Len(store) > 0 => Cardinality(RootBlocks(store)) = 1
    /\ result.op \in {"installRoot", "writeSecureBlock"} =>
          /\ result.kind = "ok" => result.before = 0
          /\ result.before > 0 =>
                result.kind = "InvalidRootError" /\ WroteNothing

C3_Witness ==
    /\ result.op = "installRoot"
    /\ result.kind = "InvalidRootError"
    /\ Cardinality(RootBlocks(store)) = 1
    /\ Len(store) >= 2

\* C4: a mutation of type T gets past validateParentBlock only if T is a legal
\* child of the type of the resolved chain root, and with a resolved chain
\* root of which T is no legal child it fails with
\* InvalidBlockError(invalidParentType, secureBlocktree), writing nothing.
C4_ParentTypeRule ==
    (IsMutation /\ ResolvedBlock # NULL) =>
        LET parentType == readSecureBlock(Before, ResolvedBlock).type
        IN /\ result.kind \in {"ok", "InvalidSignatureError"} =>
                 result.type \in LegalChildren[parentType]
           /\ result.type \notin LegalChildren[parentType] =>
                 /\ result.kind = "InvalidBlockError"
                 /\ result.reason = "invalidParentType"
                 /\ result.layer = layer_secureBlocktree
                 /\ WroteNothing

C4_Witness ==
    /\ result.op = "createZone"
    /\ ResolvedBlock # NULL
    /\ readSecureBlock(Before, ResolvedBlock).type = blockType_collection
    /\ result.reason = "invalidParentType"

\* C5: a mutation on an accepted target, signed with a key that appears in no
\* key set on any ancestor chain up to the root, fails with
\* InvalidSignatureError(unauthorized) and writes nothing.
C5_UnknownKeyUnauthorized ==
    (/\ TargetAccepted
     /\ HonestSigner
     /\ ~KeyAppearsOn(Before, AncestorRoots(Before, WalkStart),
                      result.signer.pubkey)) =>
        /\ result.kind = "InvalidSignatureError"
        /\ result.reason = "unauthorized"
        /\ WroteNothing

C5_Witness ==
    /\ result.op = "setOptions"
    /\ TargetAccepted
    /\ HonestSigner
    /\ result.signer.pubkey = "newKey"
    /\ readSecureBlock(Before, ResolvedBlock).type = blockType_zone
    /\ WalkStart = 2
    /\ result.reason = "unauthorized"
    /\ WroteNothing

\* C6: a mutation on an accepted target, signed with a write key in force in
\* the current key set of some ancestor chain (the parent chain, or any above
\* it up to the root block), succeeds and returns the hash of the new block.
C6_AncestorKeyAuthorizes ==
    (/\ TargetAccepted
     /\ HonestSigner
     /\ KeyInForceOn(Before, AncestorRoots(Before, WalkStart),
                     result.signer.pubkey)) =>
        /\ result.kind = "ok"
        /\ Len(store) = result.before + 1
        /\ result.value = Len(store)
        /\ readSecureBlock(store, result.value).type = result.type
        /\ readSecureBlock(store, result.value).prev = CallPrev

C6_Witness ==
    /\ result.op = "setOptions"
    /\ result.kind = "ok"
    /\ result.signer.pubkey = "rootKey"
    /\ readSecureBlock(Before, result.block).type = blockType_zone
    /\ readSecureBlock(Before, result.block).parent = 2
    /\ readSecureBlock(Before, 2).parent = 1
    /\ "rootKey" \notin {e.key : e \in chainKeys(Before, 2)}

\* C7: an append to a chain (setKeys, setOptions) signed with a key in force
\* only in that chain's own key set, and in none above it, fails with
\* InvalidSignatureError and writes nothing.
C7_OwnKeyDoesNotAuthorize ==
    (/\ TargetAccepted
     /\ result.type \notin NewChainTypes
     /\ HonestSigner
     /\ KeyInForceOn(Before, {ResolvedBlock}, result.signer.pubkey)
     /\ ~KeyInForceOn(Before, AncestorRoots(Before, WalkStart),
                      result.signer.pubkey)) =>
        /\ result.kind = "InvalidSignatureError"
        /\ WroteNothing

C7_Witness ==
    /\ result.op = "setOptions"
    /\ TargetAccepted
    /\ HonestSigner
    /\ readSecureBlock(Before, ResolvedBlock).type = blockType_zone
    /\ WalkStart = 2
    /\ KeyInForceOn(Before, {ResolvedBlock}, result.signer.pubkey)
    /\ result.kind = "InvalidSignatureError"

\* C8: a mutation on an accepted target whose signature was made with another
\* private key than the declared public key's, or over other bytes, fails with
\* InvalidSignatureError(doesNotMatch) and writes nothing, also when the
\* declared key is authorized.
C8_SignatureMismatch ==
    (TargetAccepted /\ ~HonestSigner) =>
        /\ result.kind = "InvalidSignatureError"
        /\ result.reason = "doesNotMatch"
        /\ WroteNothing

C8_Witness ==
    /\ result.op = "setOptions"
    /\ TargetAccepted
    /\ result.signer.pubkey = "rootZoneKey"
    /\ result.signer.signedBy = "rootKey"
    /\ KeyInForceOn(Before, AncestorRoots(Before, WalkStart), "rootZoneKey")
    /\ result.reason = "doesNotMatch"

\* C9: a mutation with no target block, or setOptions aimed at the root block,
\* fails with InvalidBlockError(isNull, secureBlocktree) and writes nothing.
C9_NullTarget ==
    (/\ IsMutation
     /\ \/ result.block = NULL
        \/ result.op = "setOptions" /\ result.block \in RootBlocks(Before)) =>
        /\ result.kind = "InvalidBlockError"
        /\ result.reason = "isNull"
        /\ result.layer = layer_secureBlocktree
        /\ WroteNothing

C9_Witness ==
    /\ result.op = "setOptions"
    /\ result.block \in RootBlocks(Before)
    /\ result.signer.pubkey = "rootKey"
    /\ HonestSigner
    /\ result.reason = "isNull"

\* ------------------------------------------------- claims, L1 and L2
IsWrite == result.op \in {"blockchain.writeBlock", "blocktree.writeBlock"}

\* the L2 check of the parent, which comes before L1 is called, lets the call by
ParentPasses ==
    result.op = "blocktree.writeBlock" /\ result.validate =>
        result.parent = NULL \/ result.parent \in 1..result.before

\* C1: with validation on, a writeBlock whose prev already has a successor
\* fails with InvalidBlockError(nextBlockExists, blockchain) and stores
\* nothing.
C1_HeadUniqueness ==
    (/\ IsWrite
     /\ result.validate
     /\ ParentPasses
     /\ result.block # NULL
     /\ \E b \in 1..result.before : blockchain_readBlock(Before, b).prev = result.block)
    =>
        /\ result.kind = "InvalidBlockError"
        /\ result.reason = "nextBlockExists"
        /\ result.layer = layer_blockchain
        /\ WroteNothing

\* C2: of two validated writeBlock calls on the same stored prev that ran at
\* the same time, exactly one returns a hash and the other fails; never both
\* succeed.
C2_OneWriterWins ==
    \A p \in Procs, q \in Procs :
        (/\ p # q
         /\ procs[p].pc \in {"done", "failed"}
         /\ procs[q].pc \in {"done", "failed"}
         /\ procs[p].prev = procs[q].prev
         /\ procs[p].prev \in 1..procs[p].began
         /\ procs[p].prev \in 1..procs[q].began
         /\ procs[p].block > procs[q].began
         /\ procs[q].block > procs[p].began)
        => ~(procs[p].pc = "done" /\ procs[q].pc = "done")

\* C10: with validation on, a writeBlock whose prev is set and names no stored
\* block fails with InvalidBlockError(isNull, blockchain) and stores nothing,
\* at L1 and, unchanged, through L2.
C10_MissingPrev ==
    (/\ IsWrite
     /\ result.validate
     /\ ParentPasses
     /\ result.block # NULL
     /\ result.block \notin 1..result.before)
    =>
        /\ result.kind = "InvalidBlockError"
        /\ result.reason = "isNull"
        /\ result.layer = layer_blockchain
        /\ WroteNothing

\* C11: with validation on, a writeBlock at a time strictly less than the
\* timestamp of its stored prev fails with
\* InvalidBlockError(invalidTimestamp, blockchain) and stores nothing.
C11_TimestampOrder ==
    (/\ IsWrite
     /\ result.validate
     /\ ParentPasses
     /\ result.block \in 1..result.before
     /\ generateTimestamp(time) < blockchain_readBlock(Before, result.block).timestamp)
    =>
        /\ result.kind = "InvalidBlockError"
        /\ result.reason = "invalidTimestamp"
        /\ result.layer = layer_blockchain
        /\ WroteNothing

IsTreeWriteUnder ==
    /\ result.op = "blocktree.writeBlock"
    /\ result.validate
    /\ result.parent # NULL

ChildRoots(st, block) ==
    {b \in 1..Len(st) :
        /\ blocktree_readBlock(st, b).prev = NULL
        /\ blocktree_readBlock(st, b).parent = block}

\* every prev and parent in storage names a stored block
NoDanglingLinks(st) ==
    \A b \in 1..Len(st) :
        /\ blocktree_readBlock(st, b).prev \in 0..Len(st)
        /\ blocktree_readBlock(st, b).parent \in 0..Len(st)

\* C13: after any writes and scans, performChildScan(h) returns exactly the
\* stored blocks with no prev and with parent h, whether the answer comes
\* from the childBlocks cache or from a scan.  Stated for storage without
\* dangling links, as validated writes leave it.
C13_ChildScanExact ==
    (result.op = "performChildScan" /\ NoDanglingLinks(store)) =>
        {result.list[i] : i \in 1..Len(result.list)}
            = ChildRoots(store, result.block)

\* ------------------------------------------- claims, validation reports
\* the stored blocks from a block back along prev
RECURSIVE ChainBlocks(_, _)
ChainBlocks(st, block) ==
    IF block \notin 1..Len(st) THEN {}
    ELSE {block} \cup ChainBlocks(st, blockchain_readBlock(st, block).prev)

\* the prev hashes on the way that name no stored block
MissingOnChain(st, block) ==
    (IF block \in 1..Len(st) THEN {} ELSE {block})
    \cup ({blockchain_readBlock(st, c).prev : c \in ChainBlocks(st, block)}
              \ (0..Len(st)))

ChainIntact(st, block) == block \in 1..Len(st) /\ MissingOnChain(st, block) = {}

\* the links of a chain where the later block is older than its predecessor
TimestampBreaks(st, block) ==
    {c \in ChainBlocks(st, block) :
        LET p == blockchain_readBlock(st, c).prev
        IN /\ p \in 1..Len(st)
           /\ blockchain_readBlock(st, c).timestamp
                  < blockchain_readBlock(st, p).timestamp}

\* C14: for a chain of n stored blocks, every prev resolving down to a root,
\* validateBlockchain(tip) returns isValid = true and blockCount = n and no
\* reason or block field.
C14_ValidChainReport ==
    (result.op = "validateBlockchain" /\ ChainIntact(store, result.block)) =>
        /\ result.kind = "ok"
        /\ result.report.isValid
        /\ result.report.blockCount = Cardinality(ChainBlocks(store, result.block))
        /\ result.report.fields = {"isValid", "blockCount"}

C14_Witness ==
    /\ result.op = "validateBlockchain"
    /\ ChainIntact(store, result.block)
    /\ Cardinality(ChainBlocks(store, result.block)) = 3
    /\ result.report.blockCount = 3

\* C15: when the walk of validateBlockchain visits k stored blocks and then
\* meets a hash that is not stored, the report has isValid = false, reason
\* missingBlock, block = that hash and blockCount = k + 1.
C15_MissingBlockCounted ==
    (/\ result.op = "validateBlockchain"
     /\ result.block # NULL
     /\ isBlockHash(result.block)
     /\ ~ChainIntact(store, result.block)) =>
        /\ result.kind = "ok"
        /\ ~result.report.isValid
        /\ result.report.reason = validation_missingBlock
        /\ result.report.block \in MissingOnChain(store, result.block)
        /\ result.report.blockCount
              = Cardinality(ChainBlocks(store, result.block)) + 1

\* C16: validateBlockchain of a chain on which some block is older than its
\* predecessor returns isValid = false, reason invalidTimestamp and block =
\* the predecessor's hash.
C16_TimestampReport ==
    (/\ result.op = "validateBlockchain"
     /\ ChainIntact(store, result.block)
     /\ TimestampBreaks(store, result.block) # {}) =>
        /\ result.kind = "ok"
        /\ ~result.report.isValid
        /\ result.report.reason = validation_invalidTimestamp
        /\ result.report.block
              \in {blockchain_readBlock(store, c).prev :
                      c \in TimestampBreaks(store, result.block)}

IsValidation == result.op \in {"validateBlockchain", "validateBlocktree"}

HasReport == {"isValid", "blockCount"} \subseteq result.report.fields

RECURSIVE ParentPath(_, _)
ParentPath(st, start) ==
    IF start \notin 1..Len(st) THEN {}
    ELSE {start} \cup ParentPath(st, blocktree_readBlock(st, start).parent)

\* the sum of the lengths of the chains walked from those blocks
RECURSIVE VisitedCount(_, _)
VisitedCount(st, start) ==
    IF start \notin 1..Len(st) THEN 0
    ELSE Cardinality(ChainBlocks(st, start))
         + VisitedCount(st, blocktree_readBlock(st, start).parent)

ChainsIntact(st, start) ==
    /\ start \in 1..Len(st)
    /\ \A p \in ParentPath(st, start) : ChainIntact(st, p)

\* the parent hashes on the path that name no stored block
DanglingParents(st, start) ==
    {blocktree_readBlock(st, p).parent : p \in ParentPath(st, start)}
        \ (0..Len(st))

\* C18: for a tree in which every chain on the parent path is whole and every
\* parent followed is stored, validateBlocktree(start) returns isValid =
\* true and blockCount = the sum of the lengths of the chains it walks.
C18_ValidTreeReport ==
    (/\ result.op = "validateBlocktree"
     /\ ChainsIntact(store, result.block)
     /\ DanglingParents(store, result.block) = {}) =>
        /\ result.kind = "ok"
        /\ result.report.isValid
        /\ result.report.blockCount = VisitedCount(store, result.block)
        /\ result.report.fields = {"isValid", "blockCount"}

C18_Witness ==
    /\ result.op = "validateBlocktree"
    /\ ChainsIntact(store, result.block)
    /\ DanglingParents(store, result.block) = {}
    /\ Cardinality(ParentPath(store, result.block)) = 2
    /\ \E p \in ParentPath(store, result.block) :
          Cardinality(ChainBlocks(store, p)) = 2
    /\ result.report.blockCount >= 3

\* C19: validateBlocktree reports isValid = false with reason
\* missingParentBlock when a block on the path has a parent that is not
\* stored, and an L1 reason only when a prev chain on the path is broken.
C19_DanglingParentReason ==
    result.op = "validateBlocktree" /\ result.kind = "ok" =>
        /\ (/\ ChainsIntact(store, result.block)
            /\ DanglingParents(store, result.block) # {}) =>
              /\ ~result.report.isValid
              /\ result.report.reason = validation_missingParentBlock
        /\ result.report.reason
              \in {validation_missingBlock, validation_invalidTimestamp} =>
              ~ChainsIntact(store, result.block)

\* C20: when the parent path of validateBlocktree visits k stored blocks and
\* then a parent hash that is not stored, the report has isValid = false,
\* block = that hash, reason missingBlock and blockCount = k + 1.
C20_MissingParentCounted ==
    (/\ result.op = "validateBlocktree"
     /\ ChainsIntact(store, result.block)
     /\ DanglingParents(store, result.block) # {}) =>
        /\ result.kind = "ok"
        /\ ~result.report.isValid
        /\ result.report.block \in DanglingParents(store, result.block)
        /\ result.report.reason = validation_missingBlock
        /\ result.report.blockCount = VisitedCount(store, result.block) + 1

\* ------------------------------------------------------------- C21, C22
IsChainRoot(st, r) ==
    r \in 1..Len(st) /\ blockchain_readBlock(st, r).prev = NULL

\* the stored blocks whose prev is the block
Successors(st, block) ==
    {h \in 1..Len(st) : blockchain_readBlock(st, h).prev = block}

\* C21: for every chain root r, of a chain of any length from one block up,
\* getHeadBlock(r) returns a block whose getRootBlock is r again.
C21_HeadLeadsBackToRoot ==
    (result.op = "getHeadBlock" /\ IsChainRoot(store, result.block))
        => /\ result.kind = "ok"
           /\ blockchain_getRootBlock(store, result.value) = result.block

\* C22: on a chain of two or more blocks built by validated appends, with
\* getHeadBlock and getNextBlock calls in between, getHeadBlock of any block
\* of the chain returns the chain's last block, the one no block follows,
\* from the headBlock slot or from the walk alike.
C22_HeadIsLastAppended ==
    (/\ result.op = "getHeadBlock"
     /\ result.block \in 1..Len(store)
     /\ Successors(store, blockchain_getRootBlock(store, result.block)) # {})
        => /\ result.kind = "ok"
           /\ result.value \in 1..Len(store)
           /\ blockchain_getRootBlock(store, result.value)
                  = blockchain_getRootBlock(store, result.block)
           /\ Successors(store, result.value) = {}

EmptyInputs == EmptyTargets \cup {NULL}

\* C24: readBlock of null, of false and of the all-zero hash returns nothing
\* and throws nothing, at L1 and at L2, whatever is stored, and stores
\* nothing.
C24_EmptyHashReadsNothing ==
    (/\ result.op \in {"blockchain.readBlock", "blocktree.readBlock"}
     /\ result.block \in EmptyInputs)
        => /\ result.kind = "ok"
           /\ result.read = NoBlock
           /\ Len(store) = result.before

C24_Witness ==
    /\ result.op = "blocktree.readBlock" /\ result.block = block_zero
    /\ result.kind = "ok" /\ Len(store) > 0

\* ------------------------------------------------------------------ C25
\* C25: readBlock, getNextBlock, getHeadBlock and getRootBlock, given a hash
\* that is not empty and not of hash size, each fail with SerializationError,
\* reason invalidBlockHash, layer blockchain, and store nothing.
C25_WrongSizeHashRefused ==
    (/\ result.op \in {"blockchain.readBlock", "getNextBlock", "getHeadBlock",
                       "getRootBlock"}
     /\ result.block \in PartialTargets)
        => /\ result.kind = "SerializationError"
           /\ result.reason = "invalidBlockHash"
           /\ result.layer = layer_blockchain
           /\ Len(store) = result.before

\* ------------------------------------------------------------------ C26
IsListBlocks == result.op \in {"blockchain.listBlocks", "blocktree.listBlocks"}

\* C26: listBlocks(prefix) returns the stored hashes that begin with the
\* prefix and no other: all of them without a prefix, none when no stored
\* hash begins with it; the blocktree layer's listBlocks returns the same.
C26_ListBlocksByPrefix ==
    IsListBlocks
        => /\ result.kind = "ok"
           /\ \A h \in 1..Len(store) :
                  h \in result.found
                      <=> \/ result.block = NULL
                          \/ result.block = h
                          \/ result.block = partialHash(h)
           /\ result.found \subseteq 1..Len(store)

\* the blocktree layer lists one of two stored blocks by half of its hash
C26_Witness ==
    /\ result.op = "blocktree.listBlocks" /\ Len(store) = 2
    /\ result.block = partialHash(2) /\ result.found = {2}

\* ------------------------------------------------------------- C27, C28
\* the parent field as it is stored in a block's tree header
StoredParent(st, h) == st[h].data.parent

\* C27: for a stored block whose parent links all lead to stored blocks,
\* performParentScan returns the block, then its parent, then that block's
\* parent, and so on, ending with the block that has no parent; one block
\* when the start has no parent.
C27_ParentScanFollowsParents ==
    (/\ result.op = "performParentScan"
     /\ result.block \in 1..Len(store)
     /\ DanglingParents(store, result.block) = {})
        => /\ result.kind = "ok"
           /\ Len(result.list) >= 1
           /\ result.list[1] = result.block
           /\ \A i \in 1..(Len(result.list) - 1) :
                  result.list[i + 1] = StoredParent(store, result.list[i])
           /\ StoredParent(store, result.list[Len(result.list)]) = NULL

\* a scan over three blocks, each the parent of the one before
C27_Witness ==
    /\ result.op = "performParentScan" /\ result.kind = "ok"
    /\ Len(result.list) = 3
    /\ result.list[2] # result.list[1] /\ result.list[3] # result.list[2]

\* C28: getParentBlock of a stored block returns the parent stored in it,
\* nothing when it has none; of a hash that names no stored block it fails
\* with InvalidBlockError, reason isNull, layer blocktree.
C28_ParentOrIsNull ==
    (result.op = "getParentBlock" /\ isBlockHash(result.block))
        => IF result.block \in 1..Len(store)
           THEN /\ result.kind = "ok"
                /\ result.value = StoredParent(store, result.block)
           ELSE /\ result.kind = "InvalidBlockError"
                /\ result.reason = "isNull"
                /\ result.layer = layer_blocktree

\* the parent of a stored block is returned
C28_Witness ==
    /\ result.op = "getParentBlock" /\ result.kind = "ok"
    /\ result.value \in 1..Len(store)

\* ------------------------------------------------------------------ C29
WriteOps ==
    {"blockchain.writeBlock", "blocktree.writeBlock", "writeSecureBlock",
     "installRoot", "createZone", "createIdentity", "createCollection",
     "setKeys", "setOptions"}

\* C29: a write that fails leaves the stored bytes and every cache slot as
\* they were when it was called.
C29_FailedWriteChangesNothing ==
    [][(/\ result.op = ""
        /\ result'.op \in WriteOps
        /\ result'.kind # "ok")
           => (store' = store /\ cache' = cache)]_vars

\* a validated L2 write refused for its parent, with blocks stored and
\* cache slots filled
C29_Witness ==
    /\ result.op = "blocktree.writeBlock"
    /\ result.kind = "InvalidBlockError"
    /\ result.reason = "invalidParentBlock"
    /\ Len(store) = 2
    /\ readCache(cache, 1, cache_headBlock) = 2

\* ------------------------------------------------------------------ C30
\* C30: while the cache raises, an L2 writeBlock that stored its block still
\* returns the block's hash, and performChildScan still returns the child
\* roots found in the store.
C30_CacheFailureSwallowed ==
    cache.failing
        => /\ (result.op = "blocktree.writeBlock" /\ result.validate
                   /\ Len(store) > result.before)
                  => (result.kind = "ok" /\ result.value = Len(store))
           /\ (result.op = "performChildScan" /\ NoDanglingLinks(store))
                  => /\ result.kind = "ok"
                     /\ {result.list[i] : i \in 1..Len(result.list)}
                            = ChildRoots(store, result.block)

\* ------------------------------------------------------------------ C31
\* C31: when writes may stop between storing their bytes and updating the
\* caches, performChildScan still lists every stored child root of the block,
\* and getHeadBlock of a block on a chain of two or more blocks still returns
\* a block of that chain that no block follows.
C31_LostCacheUpdateBenign ==
    /\ (result.op = "performChildScan" /\ result.kind = "ok")
           => ChildRoots(store, result.block)
                  \subseteq {result.list[i] : i \in 1..Len(result.list)}
    /\ (/\ result.op = "getHeadBlock"
        /\ result.block \in 1..Len(store)
        /\ Successors(store, blockchain_getRootBlock(store, result.block)) # {})
           => /\ result.value \in 1..Len(store)
              /\ Successors(store, result.value) = {}

\* ------------------------------------------------------------- C32, C38
\* the width in bytes of the encoder that was called
EncoderSize ==
    IF result.op = "fromByte" THEN size_byte
    ELSE IF result.op = "fromInt16" THEN size_int16
    ELSE IF result.op = "fromInt32" THEN size_int32
    ELSE size_int64

IsEncoder == result.op \in {"fromByte", "fromInt16", "fromInt32", "fromInt64"}

\* the decoder of the same width, reading from the start of the buffer
Decoded ==
    IF result.op = "fromByte" THEN toByte(result.bytes, 0)
    ELSE IF result.op = "fromInt16" THEN toInt16(result.bytes, 0)
    ELSE IF result.op = "fromInt32" THEN toInt32(result.bytes, 0)
    ELSE toInt64(result.bytes, 0)

\* C32: an encoder given a number from 0 to the largest value of its width
\* returns that many bytes, the least significant last, which its decoder
\* turns back into the number; given a number below 0 or above the largest
\* value it fails with SerializationError, reason argumentOutOfBounds.
C32_EncodersRoundTrip ==
    (IsEncoder /\ ~result.isBuffer)
        => IF 0 <= result.number /\ result.number <= Radix ^ EncoderSize - 1
           THEN /\ result.kind = "ok"
                /\ Len(result.bytes) = EncoderSize
                /\ \A i \in 1..EncoderSize : result.bytes[i] \in 0..(Radix - 1)
                /\ result.bytes[EncoderSize] = result.number % Radix
                /\ Decoded = result.number
           ELSE /\ result.kind = "SerializationError"
                /\ result.reason = "argumentOutOfBounds"

\* the largest value of the widest encoder is encoded
C32_Witness ==
    /\ result.op = "fromInt64" /\ ~result.isBuffer /\ result.kind = "ok"
    /\ result.number = max_int64
    /\ result.bytes = [i \in 1..size_int64 |-> Radix - 1]

\* C38: an encoder given a Buffer returns it unchanged when its length is the
\* encoder's width and fails with SerializationError, reason
\* argumentOutOfBounds, when it is not; what an encoder returns has its width.
C38_BufferOfOwnWidth ==
    IsEncoder
        => /\ result.isBuffer
                  => IF result.before = EncoderSize
                     THEN /\ result.kind = "ok"
                          /\ result.bytes = Buffer_alloc(result.before)
                     ELSE /\ result.kind = "SerializationError"
                          /\ result.reason = "argumentOutOfBounds"
           /\ result.kind = "ok" => Len(result.bytes) = EncoderSize

\* ------------------------------------------------------------------ C33
\* C33: every cache entry of a stored block that is set agrees with the
\* store: next names a stored block whose prev is the block, rootBlock is the
\* block reached by following prev to a block without prev, and headBlock is
\* a block of the block's chain that no block follows.
C33_CacheAgreesWithStore ==
    \A b \in 1..Len(store) :
        /\ readCache(cache, b, cache_next) # NULL
               => readCache(cache, b, cache_next) \in Successors(store, b)
        /\ readCache(cache, b, cache_rootBlock) # NULL
               => readCache(cache, b, cache_rootBlock)
                      = blockchain_getRootBlock(store, b)
        /\ readCache(cache, b, cache_headBlock) # NULL
               => /\ blockchain_getRootBlock(store,
                          readCache(cache, b, cache_headBlock))
                         = blockchain_getRootBlock(store, b)
                  /\ Successors(store, readCache(cache, b, cache_headBlock)) = {}

\* ------------------------------------------------------------------ C36
\* getHeadBlock was called on the only block of its chain
HeadOfSingleBlock ==
    /\ result.op = "getHeadBlock"
    /\ IsChainRoot(store, result.block)
    /\ Successors(store, result.block) = {}

\* C36, as stated: getHeadBlock of the root of a chain of one block returns
\* nothing.
C36_SingleBlockHeadIsNull ==
    HeadOfSingleBlock => (result.kind = "ok" /\ result.value = NULL)

\* the headBlock slots
HeadSlots(ca) == ca.slots[cache_headBlock]

\* C36, amended: getHeadBlock of the root of a chain of one block returns what
\* the root's headBlock slot holds, nothing when it is empty; and a headBlock
\* slot is changed only by a successful writeBlock that updates the cache and
\* by a getHeadBlock that returns a block other than the chain's root, which
\* it has reached over at least one next link.
C36_HeadSlotWriters ==
    /\ [](HeadOfSingleBlock
             => /\ result.kind = "ok"
                /\ result.value
                       = readCache(cache, result.block, cache_headBlock))
    /\ [][HeadSlots(cache') # HeadSlots(cache)
             => \/ /\ result'.op = "blockchain.writeBlock"
                   /\ result'.kind = "ok" /\ result'.cacheRoot
                \/ /\ result'.op = "getHeadBlock" /\ result'.kind = "ok"
                   /\ result'.value \in 1..Len(store)
                   /\ result'.value
                          # blockchain_getRootBlock(store, result'.block)]_vars

\* a chain of one block whose slot is empty has no head, in a store where
\* the slot of another root is set
C36_Witness ==
    /\ HeadOfSingleBlock /\ result.value = NULL
    /\ \E b \in 1..Len(store) : readCache(cache, b, cache_headBlock) # NULL

\* ------------------------------------------------------------------ C34
\* C34: whatever writes ran between the steps of an earlier scan, a
\* performChildScan made when no scan is under way lists every stored child
\* root of the block.
C34_ScanOmitsNoChild ==
    (/\ result.op = "performChildScan" /\ result.kind = "ok"
     /\ procs[Scanner].pc = "idle")
        => ChildRoots(store, result.block)
               \subseteq {result.list[i] : i \in 1..Len(result.list)}

\* ------------------------------------------------------------------ C35
\* the stored blocks that have neither prev nor parent
StoredRoots(st) ==
    {b \in 1..Len(st) :
        /\ blocktree_readBlock(st, b).prev = NULL
        /\ blocktree_readBlock(st, b).parent = NULL}

\* C35: of two writeSecureBlock calls for parentless blocks that began on
\* empty storage, at most one succeeds, and storage never holds two roots.
C35_OneRootUnderInterleaving ==
    /\ Cardinality(StoredRoots(store)) <= 1
    /\ ~ \A p \in Procs :
            /\ procs[p].pc = "done" /\ procs[p].kind = "ok"
            /\ procs[p].began = 0

\* ------------------------------------------------------------------ C37
\* the hashes getRootBlock reads when it starts from block
RECURSIVE PrevPath(_, _)
PrevPath(st, block) ==
    IF block \notin 1..Len(st) THEN {block}
    ELSE LET prev == blocktree_readBlock(st, block).prev
         IN IF prev = NULL THEN {block} ELSE {block} \cup PrevPath(st, prev)

PrevLinkMissing(st, block) == \E h \in PrevPath(st, block) : h \notin 1..Len(st)

EarlierOrNull(h, block) == h = NULL \/ h \in 1..(block - 1)

NoRepeats(list) ==
    \A i, j \in 1..Len(list) : list[i] = list[j] => i = j

\* C37: in a store of validated writes every prev and parent link is null or
\* names a block written earlier, so the walks end: getRootBlock returns null
\* exactly when a block on its prev walk is not stored, performParentScan
\* lists no block twice and no more blocks than are stored, and
\* validateBlocktree returns a report for every stored block.
C37_LinksPointBackwards ==
    /\ \A b \in 1..Len(store) :
           /\ EarlierOrNull(blocktree_readBlock(store, b).prev, b)
           /\ EarlierOrNull(blocktree_readBlock(store, b).parent, b)
    /\ (result.op = "getRootBlock" /\ result.kind = "ok") =>
           /\ (result.value = NULL) <=> PrevLinkMissing(store, result.block)
           /\ result.block \in 1..Len(store) =>
                  /\ result.value \in 1..result.block
                  /\ blocktree_readBlock(store, result.value).prev = NULL
    /\ (result.op = "performParentScan" /\ result.block \in 1..Len(store)) =>
           /\ result.kind = "ok"
           /\ Len(result.list) \in 1..Len(store)
           /\ NoRepeats(result.list)
    /\ (result.op = "validateBlocktree" /\ result.block \in 1..Len(store)) =>
           result.kind = "ok" /\ result.report # NoReport

\* getRootBlock walked back over a link, in a store that holds a parent link
C37_Witness ==
    /\ result.op = "getRootBlock" /\ result.kind = "ok"
    /\ result.block \in 1..Len(store)
    /\ result.value # NULL /\ result.value # result.block
    /\ \E b \in 1..Len(store) : blocktree_readBlock(store, b).parent # NULL

\* ------------------------------------------------------------------ C40
ReadOps ==
    {"blockchain.readBlock", "blocktree.readBlock", "blockchain.listBlocks",
     "blocktree.listBlocks", "countBlocks", "getNextBlock", "getRootBlock",
     "getHeadBlock", "getParentBlock", "performParentScan", "performChildScan",
     "validateBlockchain", "validateBlocktree"}

\* C40: every step leaves each stored block where and as it was, storage only
\* ever grows at its end, and a step that is one of the read operations
\* leaves storage as it was.
C40_StoreAppendOnly ==
    [][/\ Len(store') >= Len(store)
       /\ SubSeq(store', 1, Len(store)) = store
       /\ (result.op = "" /\ result'.op \in ReadOps) => store' = store]_vars

\* a read that wrote a cache slot: performChildScan found child chains in
\* storage, the childBlocks slot now holds them, and storage is as it was
C40_Witness ==
    /\ result.op = "performChildScan" /\ result.kind = "ok"
    /\ Len(result.list) > 0
    /\ readChildCache(cache, result.block).cached
    /\ Len(store) = result.before

\* ------------------------------------------------------------------ C39
\* the broker holds a private key under the name the request gives
Managed(br, request) ==
    propertyName(request.authorizedKey) \in DOMAIN br.authorizedKeys

\* generateRequestToken gave out the request's token for its trusted key
Issued(br, request) ==
    /\ request.signedToken # NULL
    /\ toString(request.signedToken, "base64") \in DOMAIN br.tokens
    /\ br.tokens[toString(request.signedToken, "base64")] = request.trustedKey

\* C39: buildTrustedSecrets returns re-encrypted secrets only when the
\* request's token was issued by generateRequestToken for the same trusted
\* key; for a managed authorized key, a token that is missing, was never
\* issued or was issued for another key fails with
\* InvalidSignatureError(doesNotMatch) and nothing is decrypted; an
\* authorized key the broker does not manage fails with InvalidKeyError.
C39_BrokerChecksToken ==
    result.op = "buildTrustedSecrets" =>
        /\ result.kind = "ok" => Issued(broker, result.request)
        /\ (Managed(broker, result.request) /\ ~Issued(broker, result.request))
               => /\ result.kind = "InvalidSignatureError"
                  /\ result.reason = "doesNotMatch"
                  /\ result.decrypted = {}
        /\ ~Managed(broker, result.request) => result.kind = "InvalidKeyError"

=============================================================================
